---- MODULE Spec2Model ----
(***************************************************************************)
(* Model of qt_auto_translation: a Qt TS translation catalog is parsed     *)
(* into a QMap<QString, QList<MessageInfo>>, filled by batched calls to an *)
(* external translator, imported from / exported to CSV, cleared, and      *)
(* written back.                                                           *)
(*                                                                         *)
(* A QString is a sequence of one-character strings, so that the CSV       *)
(* escaping, line splitting, trimming and number conversions are computed  *)
(* character by character as the code does.  A TS document is the sequence *)
(* of tokens QXmlStreamReader yields for it (insignificant white space     *)
(* between elements is left out: every loop of the parser skips it).       *)
(***************************************************************************)
EXTENDS Integers, Sequences, FiniteSets, TLC

VARIABLES
    tsFile,        \* content of the TS file: a sequence of XML tokens
    csvFile,       \* content of the CSV file: a sequence of characters
    translations,  \* QMap<QString, QList<MessageInfo>> of the running program
    pc,            \* position of the running program
    apiCallSize,   \* configured batch size
    ctxPos,        \* contextIt: index into the sorted keys of translations
    msgPos,        \* index of the next message of the range-for over messages
    batchPhrases,  \* QStringList batchPhrases
    request,       \* the outstanding translator request, or NoRequest
    sentLog,       \* every request dispatched so far, in order
    replyLog,      \* every reply received so far, in order
    before,        \* history: the catalog when the operation under study began
    inputFile,     \* history: the TS file as it was before the program ran
    onlyAsked,     \* history: every reply so far named only phrases of its request
    templateFile,  \* content of the template TS file: a sequence of characters
    langPostfix    \* language code handed to createTsFileFromTemplate

vars == <<tsFile, csvFile, translations, pc, apiCallSize, ctxPos, msgPos,
          batchPhrases, request, sentLog, replyLog, before, inputFile, onlyAsked,
          templateFile, langPostfix>>

-----------------------------------------------------------------------------
(* QString helpers *)

\* Characters in code-point order (QString::operator< compares code units).
CharOrder == <<"\n", " ", "\"", ",", "-", "0", "1", "2", "7", "A", "B", "o", "s", "t", "u">>

CharRank(c) == CHOOSE i \in 1..Len(CharOrder) : CharOrder[i] = c

RECURSIVE StrLess(_, _)
StrLess(a, b) ==
    IF b = <<>> THEN FALSE
    ELSE IF a = <<>> THEN TRUE
    ELSE IF a[1] # b[1] THEN CharRank(a[1]) < CharRank(b[1])
    ELSE StrLess(Tail(a), Tail(b))

isEmpty(s) == s = <<>>

\* The keys of a QMap in iteration order (ascending by operator<).
RECURSIVE SortedKeys(_)
SortedKeys(S) ==
    IF S = {} THEN <<>>
    ELSE LET least == CHOOSE k \in S : \A x \in S \ {k} : StrLess(k, x)
         IN  <<least>> \o SortedKeys(S \ {least})

keys(m) == SortedKeys(DOMAIN m)

\* QMap::insert: a new key is added, an existing key gets the new value.
insert(m, k, v) == [x \in DOMAIN m \cup {k} |-> IF x = k THEN v ELSE m[x]]

EmptyMap == [x \in {} |-> <<>>]

-----------------------------------------------------------------------------
(* Number conversions: QString::number(int) and QString::toInt(&ok) *)

Digits == <<"0", "1", "2", "3", "4", "5", "6", "7", "8", "9">>

IsDigit(c) == \E d \in 1..10 : Digits[d] = c

DigitValue(c) == (CHOOSE d \in 1..10 : Digits[d] = c) - 1

RECURSIVE NatToStr(_)
NatToStr(n) ==
    IF n < 10 THEN <<Digits[n + 1]>>
    ELSE NatToStr(n \div 10) \o <<Digits[(n % 10) + 1]>>

\* QString::number(int), base 10.
number(n) == IF n < 0 THEN <<"-">> \o NatToStr(-n) ELSE NatToStr(n)

RECURSIVE StrToNat(_, _)
StrToNat(s, acc) ==
    IF s = <<>> THEN acc ELSE StrToNat(Tail(s), acc * 10 + DigitValue(s[1]))

\* Leading and trailing white space is dropped (QString::trimmed).
IsSpace(c) == c \in {" ", "\n", "\t", "\r"}

RECURSIVE TrimLeft(_)
TrimLeft(s) == IF s # <<>> /\ IsSpace(s[1]) THEN TrimLeft(Tail(s)) ELSE s

RECURSIVE TrimRight(_)
TrimRight(s) ==
    IF s # <<>> /\ IsSpace(s[Len(s)]) THEN TrimRight(SubSeq(s, 1, Len(s) - 1)) ELSE s

trimmed(s) == TrimRight(TrimLeft(s))

\* QString::toInt(&ok): an optional sign and decimal digits, white space around
\* them ignored; anything else gives 0 with ok = false.
toInt(s) ==
    LET t    == trimmed(s)
        neg  == t # <<>> /\ t[1] = "-"
        body == IF t # <<>> /\ t[1] \in {"-", "+"} THEN Tail(t) ELSE t
        good == body # <<>> /\ \A i \in 1..Len(body) : IsDigit(body[i])
    IN  IF good
        THEN [ok |-> TRUE, value |-> IF neg THEN -StrToNat(body, 0) ELSE StrToNat(body, 0)]
        ELSE [ok |-> FALSE, value |-> 0]

-----------------------------------------------------------------------------
(* The data model *)

Location(filename, line) == [filename |-> filename, line |-> line]

MessageInfo(locations, source, translation, translationType) ==
    [locations |-> locations, source |-> source,
     translation |-> translation, translationType |-> translationType]

\* A default-constructed MessageInfo.
NewMessageInfo == MessageInfo(<<>>, <<>>, <<>>, <<>>)

-----------------------------------------------------------------------------
(* XML tokens, as QXmlStreamReader reports them *)

StartElement(name, attrs) == [type |-> "StartElement", name |-> name, attrs |-> attrs, text |-> <<>>]
EndElement(name)          == [type |-> "EndElement", name |-> name, attrs |-> <<>>, text |-> <<>>]
Characters(text)          == [type |-> "Characters", name |-> "", attrs |-> <<>>, text |-> text]
StartDocument             == [type |-> "StartDocument", name |-> "", attrs |-> <<>>, text |-> <<>>]
DTD                       == [type |-> "DTD", name |-> "", attrs |-> <<>>, text |-> <<>>]
EndDocument               == [type |-> "EndDocument", name |-> "", attrs |-> <<>>, text |-> <<>>]
Invalid                   == [type |-> "Invalid", name |-> "", attrs |-> <<>>, text |-> <<>>]
NoToken                   == [type |-> "NoToken", name |-> "", attrs |-> <<>>, text |-> <<>>]

\* An attribute list is a sequence of <<name, value>> pairs.
HasAttr(attrs, key) == \E i \in 1..Len(attrs) : attrs[i][1] = key

\* QXmlStreamAttributes::value: the value of the attribute, empty when absent.
AttrValue(attrs, key) ==
    IF HasAttr(attrs, key)
    THEN attrs[CHOOSE i \in 1..Len(attrs) : attrs[i][1] = key][2]
    ELSE <<>>

\* writeTextElement / writeCharacters: empty text produces no Characters token.
TextTokens(text) == IF text = <<>> THEN <<>> ELSE <<Characters(text)>>

TextElement(name, text) == <<StartElement(name, <<>>)>> \o TextTokens(text) \o <<EndElement(name)>>

\* The translationType field holds the text of the type attribute.
Unfinished == <<"u", "n", "f", "i", "n", "i", "s", "h", "e", "d">>

-----------------------------------------------------------------------------
(* writeTsFile *)

LocationTokens(loc) ==
    <<StartElement("location", <<<<"filename", loc.filename>>, <<"line", number(loc.line)>>>>),
      EndElement("location")>>

RECURSIVE LocationsTokens(_)
LocationsTokens(locations) ==
    IF locations = <<>> THEN <<>>
    ELSE LocationTokens(Head(locations)) \o LocationsTokens(Tail(locations))

\* A legal variant of the writer's rule for the type attribute, used to test
\* the claims about it: the marker follows the translationType field.
TranslationStart_FromState(msg) ==
    StartElement("translation",
                 IF msg.translationType = Unfinished THEN <<<<"type", Unfinished>>>> ELSE <<>>)

\* The translation start tag: type="unfinished" when the translation is empty.
TranslationStart(msg) ==
    StartElement("translation",
                 IF isEmpty(msg.translation) THEN <<<<"type", Unfinished>>>> ELSE <<>>)

\* A writer that forgets the locations of a message.
MessageTokens_NoLocations(msg) ==
    <<StartElement("message", <<>>)>>
    \o TextElement("source", msg.source)
    \o <<TranslationStart(msg)>> \o TextTokens(msg.translation) \o <<EndElement("translation")>>
    \o <<EndElement("message")>>

MessageTokens(msg) ==
    <<StartElement("message", <<>>)>>
    \o LocationsTokens(msg.locations)
    \o TextElement("source", msg.source)
    \o <<TranslationStart(msg)>> \o TextTokens(msg.translation) \o <<EndElement("translation")>>
    \o <<EndElement("message")>>

RECURSIVE MessagesTokens(_)
MessagesTokens(messages) ==
    IF messages = <<>> THEN <<>>
    ELSE MessageTokens(Head(messages)) \o MessagesTokens(Tail(messages))

ContextTokens(name, messages) ==
    <<StartElement("context", <<>>)>>
    \o TextElement("name", name)
    \o MessagesTokens(messages)
    \o <<EndElement("context")>>

RECURSIVE ContextsTokens(_, _)
ContextsTokens(m, ks) ==
    IF ks = <<>> THEN <<>>
    ELSE ContextTokens(Head(ks), m[Head(ks)]) \o ContextsTokens(m, Tail(ks))

Version21 == <<"2", ".", "1">>

\* A writer that emits the contexts in descending key order.
RECURSIVE Reverse(_)
Reverse(s) == IF s = <<>> THEN <<>> ELSE Reverse(Tail(s)) \o <<Head(s)>>

writeTsFile_Descending(m, languageCode) ==
    <<StartDocument, DTD,
      StartElement("TS", <<<<"version", Version21>>, <<"language", languageCode>>>>)>>
    \o ContextsTokens(m, Reverse(keys(m)))
    \o <<EndElement("TS"), EndDocument>>

\* The document writeTsFile writes for the map m.
writeTsFile(m, languageCode) ==
    <<StartDocument, DTD,
      StartElement("TS", <<<<"version", Version21>>, <<"language", languageCode>>>>)>>
    \o ContextsTokens(m, keys(m))
    \o <<EndElement("TS"), EndDocument>>

-----------------------------------------------------------------------------
(* QXmlStreamReader over a token sequence.  The reader is [pos, err]: the   *)
(* index of the current token and whether an error has been raised.  Once   *)
(* an error is raised (also by reading past the last token: a premature    *)
(* end of the document) every readNext reports Invalid again.              *)

NewReader == [pos |-> 0, err |-> FALSE]

tokenType(toks, r) ==
    IF r.err THEN "Invalid" ELSE IF r.pos = 0 THEN "NoToken" ELSE toks[r.pos].type

current(toks, r) ==
    IF r.err THEN Invalid ELSE IF r.pos = 0 THEN NoToken ELSE toks[r.pos]

hasError(r) == r.err

atEnd(toks, r) == r.err \/ tokenType(toks, r) = "EndDocument"

raiseError(r) == [pos |-> r.pos, err |-> TRUE]

readNext(toks, r) ==
    IF r.err THEN r
    ELSE IF r.pos + 1 > Len(toks) THEN raiseError(r)
    ELSE IF toks[r.pos + 1].type = "Invalid" THEN [pos |-> r.pos + 1, err |-> TRUE]
    ELSE [pos |-> r.pos + 1, err |-> FALSE]

IsStart(toks, r, name) ==
    /\ tokenType(toks, r) = "StartElement"
    /\ current(toks, r).name = name

IsEnd(toks, r, name) ==
    /\ tokenType(toks, r) = "EndElement"
    /\ current(toks, r).name = name

\* readElementText (ErrorOnUnexpectedElement): the text up to the end tag;
\* the reader is left on the end tag.  A child element raises an error.
RECURSIVE ReadText(_, _, _)
ReadText(toks, r, acc) ==
    LET r1 == readNext(toks, r)
        ty == tokenType(toks, r1)
    IN  IF ty = "Characters" THEN ReadText(toks, r1, acc \o current(toks, r1).text)
        ELSE IF ty = "EndElement" THEN [text |-> acc, r |-> r1]
        ELSE [text |-> acc, r |-> raiseError(r1)]

readElementText(toks, r) == ReadText(toks, r, <<>>)

\* skipCurrentElement: reads to the end tag that closes the current element.
RECURSIVE SkipDepth(_, _, _)
SkipDepth(toks, r, depth) ==
    IF depth = 0 THEN r
    ELSE LET r1 == readNext(toks, r)
             ty == tokenType(toks, r1)
         IN  IF ty = "Invalid" THEN r1
             ELSE IF ty = "EndElement" THEN SkipDepth(toks, r1, depth - 1)
             ELSE IF ty = "StartElement" THEN SkipDepth(toks, r1, depth + 1)
             ELSE SkipDepth(toks, r1, depth)

skipCurrentElement(toks, r) == SkipDepth(toks, r, 1)

-----------------------------------------------------------------------------
(* parseTsFile: the three nested loops.  Each loop operator returns the     *)
(* reader where the loop left it and hang = TRUE when the loop can never   *)
(* leave: its exit test looks for an end tag, and after an error the       *)
(* current token stays Invalid for ever.                                   *)

\* msg.source = xml.readElementText(), got being the text read and the reader
\* after it.
SourceRead(msg, got) == [msg |-> [msg EXCEPT !.source = got.text], r |-> got.r]

\* msg.translationType = attrs.value("type"); msg.translation =
\* xml.readElementText().
TranslationRead(msg, attrs, got) ==
    [msg |-> [msg EXCEPT !.translationType = AttrValue(attrs, "type"),
                         !.translation = got.text],
     r   |-> got.r]

\* One pass of the body of the message loop on a start tag.
MessageElement(toks, r, msg) ==
    IF IsStart(toks, r, "location") THEN
        LET attrs == current(toks, r).attrs
            loc   == Location(AttrValue(attrs, "filename"), toInt(AttrValue(attrs, "line")).value)
        IN  [msg |-> [msg EXCEPT !.locations = Append(@, loc)],
             r   |-> skipCurrentElement(toks, r)]
    ELSE IF IsStart(toks, r, "source") THEN
        SourceRead(msg, readElementText(toks, r))
    ELSE IF IsStart(toks, r, "translation") THEN
        TranslationRead(msg, current(toks, r).attrs, readElementText(toks, r))
    ELSE [msg |-> msg, r |-> r]

RECURSIVE MessageLoop(_, _, _)

\* The xml.readNext() that ends a pass of the message loop, and the next pass.
MessageLoopNext(toks, step) == MessageLoop(toks, readNext(toks, step.r), step.msg)

MessageLoop(toks, r, msg) ==
    IF IsEnd(toks, r, "message") THEN [hang |-> FALSE, r |-> r, msg |-> msg]
    ELSE IF hasError(r) THEN [hang |-> TRUE, r |-> r, msg |-> msg]
    ELSE MessageLoopNext(toks, MessageElement(toks, r, msg))

RECURSIVE ContextLoop(_, _, _, _)

\* contextName = xml.readElementText(), then the next pass of the context loop.
ContextLoopAfterName(toks, got, messages) ==
    ContextLoop(toks, readNext(toks, got.r), got.text, messages)

\* messages.append(msg) after the message loop m, then the next pass; if the
\* message loop never leaves, neither does the context loop.
ContextLoopAfterMessage(toks, m, contextName, messages) ==
    IF m.hang
    THEN [hang |-> TRUE, r |-> m.r, contextName |-> contextName, messages |-> messages]
    ELSE ContextLoop(toks, readNext(toks, m.r), contextName, Append(messages, m.msg))

ContextLoop(toks, r, contextName, messages) ==
    IF IsEnd(toks, r, "context") THEN
        [hang |-> FALSE, r |-> r, contextName |-> contextName, messages |-> messages]
    ELSE IF hasError(r) THEN
        [hang |-> TRUE, r |-> r, contextName |-> contextName, messages |-> messages]
    ELSE IF IsStart(toks, r, "name") THEN
        ContextLoopAfterName(toks, readElementText(toks, r), messages)
    ELSE IF IsStart(toks, r, "message") THEN
        ContextLoopAfterMessage(toks, MessageLoop(toks, r, NewMessageInfo),
                                contextName, messages)
    ELSE ContextLoop(toks, readNext(toks, r), contextName, messages)

RECURSIVE MainLoop(_, _, _)

\* After the context loop c: the context is inserted if it has a name, and the
\* main loop goes on; if the context loop never leaves, neither does parseTsFile.
MainLoopAfterContext(toks, c, contextMap) ==
    IF c.hang
    THEN [hang |-> TRUE, error |-> TRUE, contextMap |-> contextMap]
    ELSE MainLoop(toks, c.r,
                  IF ~isEmpty(c.contextName)
                  THEN insert(contextMap, c.contextName, c.messages)
                  ELSE contextMap)

\* The main loop on the token r1 that readNext has returned.
MainLoopToken(toks, r1, contextMap) ==
    IF IsStart(toks, r1, "context")
    THEN MainLoopAfterContext(toks, ContextLoop(toks, r1, <<>>, <<>>), contextMap)
    ELSE MainLoop(toks, r1, contextMap)

MainLoop(toks, r, contextMap) ==
    IF atEnd(toks, r) \/ hasError(r) THEN
        [hang |-> FALSE, error |-> hasError(r), contextMap |-> contextMap]
    ELSE MainLoopToken(toks, readNext(toks, r), contextMap)

\* The outcome of parseTsFile on a readable file: the map returned (when the
\* call returns at all) and whether an XML error was reported.
parseTsFileRun(toks) == MainLoop(toks, NewReader, EmptyMap)

parseTsFile(toks) == parseTsFileRun(toks).contextMap

-----------------------------------------------------------------------------
(* Input documents.  A TS file on disk is any sequence of context blocks:   *)
(* the names may repeat or be empty, and the type attribute of a           *)
(* translation element is independent of its text (Qt Linguist writes      *)
(* type="unfinished" with a draft text, and a hand-edited file may hold an *)
(* empty translation without the attribute).                               *)

MaxMsgs == 2

InputMessageTokens(msg) ==
    <<StartElement("message", <<>>)>>
    \o LocationsTokens(msg.locations)
    \o TextElement("source", msg.source)
    \o <<StartElement("translation",
                      IF isEmpty(msg.translationType) THEN <<>>
                      ELSE <<<<"type", msg.translationType>>>>)>>
    \o TextTokens(msg.translation) \o <<EndElement("translation")>>
    \o <<EndElement("message")>>

RECURSIVE InputMessagesTokens(_)
InputMessagesTokens(messages) ==
    IF messages = <<>> THEN <<>>
    ELSE InputMessageTokens(Head(messages)) \o InputMessagesTokens(Tail(messages))

RECURSIVE InputBlocksTokens(_)
InputBlocksTokens(blocks) ==
    IF blocks = <<>> THEN <<>>
    ELSE <<StartElement("context", <<>>)>>
         \o TextElement("name", Head(blocks).name)
         \o InputMessagesTokens(Head(blocks).messages)
         \o <<EndElement("context")>>
         \o InputBlocksTokens(Tail(blocks))

InputDocument(blocks, languageCode) ==
    <<StartDocument, DTD,
      StartElement("TS", <<<<"version", Version21>>, <<"language", languageCode>>>>)>>
    \o InputBlocksTokens(blocks)
    \o <<EndElement("TS"), EndDocument>>

SeqsUpTo(S, n) == UNION {[1..k -> S] : k \in 0..n}

Blocks(names, messages) ==
    {[name |-> nm, messages |-> ms] : nm \in names, ms \in SeqsUpTo(messages, MaxMsgs)}

\* Context blocks of one message.
SingleBlocks(names, messages) ==
    {[name |-> nm, messages |-> <<msg>>] : nm \in names, msg \in messages}

\* No block, one block of B, or one block of B followed by one of C.
BlockSeqs(B, C) == {<<>>} \cup {<<b>> : b \in B} \cup {<<b, c>> : b \in B, c \in C}

LanguageCodes == {<<"t", "s">>}

\* The inputs of the catalog store checks.
StoreNames == {<<>>, <<"A">>, <<"B">>}

StoreMessages ==
    { MessageInfo(<<Location(<<"o">>, 7)>>, <<"s">>, <<"t">>, <<>>),
      MessageInfo(<<>>, <<"s">>, <<>>, Unfinished),
      MessageInfo(<<Location(<<"o">>, 7), Location(<<"o", "o">>, 12)>>, <<"u">>, <<"t", "t">>, Unfinished),
      MessageInfo(<<Location(<<>>, 0)>>, <<>>, <<>>, <<>>) }

StoreDocuments ==
    {InputDocument(bs, lc) : bs \in BlockSeqs(Blocks(StoreNames, StoreMessages),
                                             SingleBlocks(StoreNames, StoreMessages)),
                             lc \in LanguageCodes}

-----------------------------------------------------------------------------
(* The catalog store: parse, write, read back *)

Idle ==
    /\ csvFile = <<>>
    /\ apiCallSize = 0
    /\ ctxPos = 0
    /\ msgPos = 0
    /\ batchPhrases = <<>>
    /\ request = <<>>
    /\ sentLog = <<>>
    /\ replyLog = <<>>
    /\ onlyAsked = TRUE
    /\ templateFile = <<>>
    /\ langPostfix = <<>>

StoreInit ==
    /\ tsFile \in StoreDocuments
    /\ inputFile = tsFile
    /\ translations = EmptyMap
    /\ before = EmptyMap
    /\ pc = "start"
    /\ Idle

\* parseTsFile returns the map of the file.
ParseTs ==
    /\ pc = "start"
    /\ \E run \in {parseTsFileRun(tsFile)} :
          /\ ~run.hang
          /\ translations' = run.contextMap
    /\ before' = translations'
    /\ pc' = "parsed"
    /\ UNCHANGED <<tsFile, csvFile, apiCallSize, ctxPos, msgPos, batchPhrases,
                   request, sentLog, replyLog, inputFile, onlyAsked,
                   templateFile, langPostfix>>

\* writeTsFile replaces the file by the document of the map.
WriteTs ==
    /\ pc = "parsed"
    /\ \E languageCode \in LanguageCodes : tsFile' = writeTsFile(translations, languageCode)
    /\ before' = translations
    /\ pc' = "written"
    /\ UNCHANGED <<csvFile, translations, apiCallSize, ctxPos, msgPos, batchPhrases,
                   request, sentLog, replyLog, inputFile, onlyAsked,
                   templateFile, langPostfix>>

\* The written file is parsed again.
ReadBack ==
    /\ pc = "written"
    /\ ~parseTsFileRun(tsFile).hang
    /\ translations' = parseTsFile(tsFile)
    /\ pc' = "readback"
    /\ UNCHANGED <<tsFile, csvFile, apiCallSize, ctxPos, msgPos, batchPhrases,
                   request, sentLog, replyLog, before, inputFile, onlyAsked,
                   templateFile, langPostfix>>

StoreNext == ParseTs \/ WriteTs \/ ReadBack

SpecStore == StoreInit /\ [][StoreNext]_vars

-----------------------------------------------------------------------------
(* Observers of a written document and of a catalog, used by the claims *)

\* The positions of the start tags named name, in document order.
StartsOf(doc, name) ==
    LET P == {i \in 1..Len(doc) : doc[i].type = "StartElement" /\ doc[i].name = name}
        RECURSIVE Asc(_)
        Asc(S) == IF S = {} THEN <<>>
                  ELSE LET least == CHOOSE i \in S : \A j \in S : i <= j
                       IN  <<least>> \o Asc(S \ {least})
    IN  Asc(P)

\* The text that follows the start tag at position i.
TextAt(doc, i) ==
    IF i < Len(doc) /\ doc[i + 1].type = "Characters" THEN doc[i + 1].text ELSE <<>>

\* The texts of the elements named name, in document order.
TextsOf(doc, name) ==
    LET at == StartsOf(doc, name) IN [k \in 1..Len(at) |-> TextAt(doc, at[k])]

\* The tokens of the k-th context block of a document.
BlockOf(doc, k) ==
    LET from == StartsOf(doc, "context")[k]
        to   == CHOOSE j \in from..Len(doc) :
                    /\ doc[j].type = "EndElement" /\ doc[j].name = "context"
                    /\ \A i \in from..(j - 1) :
                           ~(doc[i].type = "EndElement" /\ doc[i].name = "context")
    IN  SubSeq(doc, from, to)

\* The messages of a catalog in the order of iteration over the map.
RECURSIVE FlatMessages(_, _)
FlatMessages(m, ks) ==
    IF ks = <<>> THEN <<>> ELSE m[Head(ks)] \o FlatMessages(m, Tail(ks))

AllMessages(m) == FlatMessages(m, keys(m))

\* Two catalogs with the same contexts and, per context, the same messages in
\* the same order with the same locations, source text and translation text.
SameText(m1, m2) ==
    /\ DOMAIN m1 = DOMAIN m2
    /\ \A c \in DOMAIN m1 :
          /\ Len(m1[c]) = Len(m2[c])
          /\ \A i \in 1..Len(m1[c]) :
                /\ m1[c][i].locations = m2[c][i].locations
                /\ m1[c][i].source = m2[c][i].source
                /\ m1[c][i].translation = m2[c][i].translation

-----------------------------------------------------------------------------
(* C6: for a catalog with unique, non-empty context names, parsing the     *)
(* document that writeTsFile wrote for it gives the same set of contexts   *)
(* and, per context, the same messages in the same order with the same     *)
(* locations, source text and translation text.                            *)
C6_RoundTrip ==
    pc = "readback" =>
        /\ \A c \in DOMAIN before : ~isEmpty(c)
        /\ SameText(translations, before)

\* A written and re-read catalog of two contexts, one holding two messages,
\* one of them with two locations.
C6_Witness ==
    /\ pc = "readback"
    /\ Cardinality(DOMAIN before) = 2
    /\ \E c \in DOMAIN before :
          /\ Len(before[c]) = 2
          /\ \E i \in 1..2 : Len(before[c][i].locations) = 2

(* C7: writeTsFile emits exactly one context block per context of the map, *)
(* in ascending order of context name whatever the order of the blocks in  *)
(* the parsed document, and within each block the messages of that context *)
(* in their in-memory order.                                               *)
C7_SortedContexts ==
    pc = "written" =>
        LET names == TextsOf(tsFile, "name")
        IN  /\ Len(names) = Cardinality(DOMAIN before)
            /\ Len(StartsOf(tsFile, "context")) = Len(names)
            /\ {names[k] : k \in 1..Len(names)} = DOMAIN before
            /\ \A j, k \in 1..Len(names) : j < k => StrLess(names[j], names[k])
            /\ \A k \in 1..Len(names) :
                  LET block == BlockOf(tsFile, k)
                      msgs  == before[names[k]]
                  IN  /\ TextsOf(block, "source") = [i \in 1..Len(msgs) |-> msgs[i].source]
                      /\ TextsOf(block, "translation") = [i \in 1..Len(msgs) |-> msgs[i].translation]
                      /\ Len(StartsOf(block, "message")) = Len(msgs)

\* The parsed document held context B before context A, and a context with two
\* different messages; the file has been written.
C7_Witness ==
    /\ pc = "written"
    /\ TextsOf(inputFile, "name") = <<<<"B">>, <<"A">>>>
    /\ \E c \in DOMAIN before : Len(before[c]) = 2 /\ before[c][1] # before[c][2]

(* C8: in the written document the translation element of a message        *)
(* carries type="unfinished" exactly when the message's translation text   *)
(* is empty, whatever the message's translationType field holds.           *)
C8_PendingMarker ==
    pc = "written" =>
        LET at   == StartsOf(tsFile, "translation")
            msgs == AllMessages(before)
        IN  /\ Len(at) = Len(msgs)
            /\ \A k \in 1..Len(at) :
                  /\ HasAttr(tsFile[at[k]].attrs, "type") <=> isEmpty(msgs[k].translation)
                  /\ HasAttr(tsFile[at[k]].attrs, "type")
                        => AttrValue(tsFile[at[k]].attrs, "type") = Unfinished
                  /\ TextAt(tsFile, at[k]) = msgs[k].translation

\* A written catalog holding a message with text and the unfinished type, and a
\* message with no text and no type.
C8_Witness ==
    /\ pc = "written"
    /\ \E c \in DOMAIN before : \E i \in 1..Len(before[c]) :
          ~isEmpty(before[c][i].translation) /\ before[c][i].translationType = Unfinished
    /\ \E c \in DOMAIN before : \E i \in 1..Len(before[c]) :
          isEmpty(before[c][i].translation) /\ isEmpty(before[c][i].translationType)

-----------------------------------------------------------------------------
(* exportToCsv.  The CSV file is a sequence of characters; "BOM" stands for *)
(* the three bytes of the UTF-8 byte-order mark.                           *)

Contains(s, c) == \E i \in 1..Len(s) : s[i] = c

\* QString::replace("\"", "\"\""): every quote is doubled.
RECURSIVE DoubleQuotes(_)
DoubleQuotes(s) ==
    IF s = <<>> THEN <<>>
    ELSE (IF s[1] = "\"" THEN <<"\"", "\"">> ELSE <<s[1]>>) \o DoubleQuotes(Tail(s))

\* An exporter that quotes a field without doubling the quotes inside it.
escapeCsvField_NoDoubling(field) ==
    IF Contains(field, ",") \/ Contains(field, "\"") \/ Contains(field, "\n")
    THEN <<"\"">> \o field \o <<"\"">>
    ELSE field

escapeCsvField(field) ==
    IF Contains(field, ",") \/ Contains(field, "\"") \/ Contains(field, "\n")
    THEN <<"\"">> \o DoubleQuotes(field) \o <<"\"">>
    ELSE field

CsvHeader ==
    <<"n", "a", "m", "e", ",", "f", "i", "l", "e", "n", "a", "m", "e", ",", "l", "i", "n", "e", ",",
      "s", "o", "u", "r", "c", "e", ",", "t", "r", "a", "n", "s", "l", "a", "t", "i", "o", "n", "\n">>

CsvRow(contextName, loc, msg) ==
    escapeCsvField(contextName) \o <<",">>
    \o escapeCsvField(loc.filename) \o <<",">>
    \o number(loc.line) \o <<",">>
    \o escapeCsvField(msg.source) \o <<",">>
    \o escapeCsvField(msg.translation) \o <<"\n">>

\* An exporter that writes one row per message, for its first location.
MessageRows_OncePerMessage(contextName, msg, locations) ==
    IF locations = <<>> THEN <<>> ELSE CsvRow(contextName, Head(locations), msg)

RECURSIVE MessageRows(_, _, _)
MessageRows(contextName, msg, locations) ==
    IF locations = <<>> THEN <<>>
    ELSE CsvRow(contextName, Head(locations), msg)
         \o MessageRows(contextName, msg, Tail(locations))

RECURSIVE ContextRows(_, _)
ContextRows(contextName, messages) ==
    IF messages = <<>> THEN <<>>
    ELSE MessageRows(contextName, Head(messages), Head(messages).locations)
         \o ContextRows(contextName, Tail(messages))

RECURSIVE CatalogRows(_, _)
CatalogRows(m, ks) ==
    IF ks = <<>> THEN <<>>
    ELSE ContextRows(Head(ks), m[Head(ks)]) \o CatalogRows(m, Tail(ks))

\* The text exportToCsv writes for the map m.
exportToCsv(m) == <<"BOM">> \o CsvHeader \o CatalogRows(m, keys(m))

-----------------------------------------------------------------------------
(* parseCsvLine *)

RECURSIVE CsvScan(_, _, _, _, _)
CsvScan(line, i, field, inQuotes, result) ==
    IF i > Len(line) THEN Append(result, field)
    ELSE LET c == line[i]
         IN  IF inQuotes THEN
                 IF c = "\"" THEN
                     IF i + 1 <= Len(line) /\ line[i + 1] = "\""
                     THEN CsvScan(line, i + 2, Append(field, "\""), TRUE, result)
                     ELSE CsvScan(line, i + 1, field, FALSE, result)
                 ELSE CsvScan(line, i + 1, Append(field, c), TRUE, result)
             ELSE IF c = "\"" THEN CsvScan(line, i + 1, field, TRUE, result)
             ELSE IF c = "," THEN CsvScan(line, i + 1, <<>>, FALSE, Append(result, field))
             ELSE CsvScan(line, i + 1, Append(field, c), FALSE, result)

parseCsvLine(line) == CsvScan(line, 1, <<>>, FALSE, <<>>)

-----------------------------------------------------------------------------
(* importFromCsv *)

\* QTextStream::readLine until atEnd: the text is cut at every line feed; the
\* line feeds are dropped, and text after the last one is a line of its own.
\* LinesFrom reads the lines that start at position start or later.
RECURSIVE LinesFrom(_, _)
LinesFrom(text, start) ==
    IF start > Len(text) THEN <<>>
    ELSE LET feeds == {i \in start..Len(text) : text[i] = "\n"}
             stop  == IF feeds = {} THEN Len(text) + 1
                      ELSE CHOOSE i \in feeds : \A j \in feeds : i <= j
         IN  <<SubSeq(text, start, stop - 1)>> \o LinesFrom(text, stop + 1)

ReadLines(text) == LinesFrom(text, 1)

\* The index of the first message whose source is the given one, 0 if none.
FirstMatch(messages, source) ==
    IF \E i \in 1..Len(messages) : messages[i].source = source
    THEN CHOOSE i \in 1..Len(messages) :
             /\ messages[i].source = source
             /\ \A j \in 1..(i - 1) : messages[j].source # source
    ELSE 0

\* An importer that leaves the translationType of the message as it was.
ApplyRow_KeepType(m, name, source, translation) ==
    LET i == FirstMatch(m[name], source)
    IN  IF i = 0 THEN m
        ELSE [m EXCEPT ![name][i].translation = translation]

\* An importer that appends a message when no message of the context has the
\* source of the row.
ApplyRow_AddMissing(m, name, source, translation) ==
    LET i == FirstMatch(m[name], source)
    IN  IF i = 0
        THEN [m EXCEPT ![name] = Append(@, MessageInfo(<<>>, source, translation, <<>>))]
        ELSE [m EXCEPT ![name][i].translation = translation,
                       ![name][i].translationType =
                            IF isEmpty(translation) THEN Unfinished ELSE <<>>]

\* An importer that gives the translation to every message of the context
\* with the source of the row.
ApplyRow_AllMatches(m, name, source, translation) ==
    [m EXCEPT ![name] =
        [i \in 1..Len(@) |->
            IF @[i].source = source
            THEN [@[i] EXCEPT !.translation = translation,
                              !.translationType =
                                   IF isEmpty(translation) THEN Unfinished ELSE <<>>]
            ELSE @[i]]]

\* Lines 329-346: the first message of the context with that source gets the
\* translation and the type that follows from it.
ApplyRow(m, name, source, translation) ==
    LET i == FirstMatch(m[name], source)
    IN  IF i = 0 THEN m
        ELSE [m EXCEPT ![name][i].translation = translation,
                       ![name][i].translationType =
                            IF isEmpty(translation) THEN Unfinished ELSE <<>>]

\* Lines 311-327: the row is dropped if its line number is not an integer or
\* its context is not in the map.
ImportRow(m, name, lineStr, source, translation) ==
    IF ~toInt(lineStr).ok THEN m
    ELSE IF name \notin DOMAIN m THEN m
    ELSE ApplyRow(m, name, source, translation)

\* Lines 299-308: a line of fewer than five fields is dropped; the fields are
\* trimmed.
ImportFields(m, fields) ==
    IF Len(fields) < 5 THEN m
    ELSE ImportRow(m, trimmed(fields[1]), trimmed(fields[3]), trimmed(fields[4]),
                   trimmed(fields[5]))

\* One pass of the body of the loop over the lines.
ImportLine(m, line) ==
    IF isEmpty(trimmed(line)) THEN m
    ELSE ImportFields(m, parseCsvLine(line))

\* An import that gives up at the first row it cannot apply.
RowRejected(m, fields) ==
    \/ Len(fields) < 5
    \/ ~toInt(trimmed(fields[3])).ok
    \/ trimmed(fields[1]) \notin DOMAIN m
    \/ FirstMatch(m[trimmed(fields[1])], trimmed(fields[4])) = 0

RECURSIVE ImportLines_StopAtBadRow(_, _)
ImportLines_StopAtBadRow(m, lines) ==
    IF lines = <<>> THEN m
    ELSE IF ~isEmpty(trimmed(Head(lines))) /\ RowRejected(m, parseCsvLine(Head(lines)))
    THEN m
    ELSE ImportLines_StopAtBadRow(ImportLine(m, Head(lines)), Tail(lines))

\* An import that applies the rows from the last to the first.
RECURSIVE ImportLines_LastRowFirst(_, _)
ImportLines_LastRowFirst(m, lines) ==
    IF lines = <<>> THEN m
    ELSE ImportLine(ImportLines_LastRowFirst(m, Tail(lines)), Head(lines))

RECURSIVE ImportLines(_, _)
ImportLines(m, lines) ==
    IF lines = <<>> THEN m ELSE ImportLines(ImportLine(m, Head(lines)), Tail(lines))

\* The map after importFromCsv has read the text: the first line is dropped.
importFromCsv(text, m) ==
    LET lines == ReadLines(text)
    IN  IF lines = <<>> THEN m ELSE ImportLines(m, Tail(lines))

-----------------------------------------------------------------------------
(* clearTranslation *)

\* A reset that empties the text but leaves the translationType alone.
ClearMessage_KeepType(msg) == [msg EXCEPT !.translation = <<>>]

ClearMessage(msg) == [msg EXCEPT !.translation = <<>>, !.translationType = Unfinished]

\* Lines 530-535: every message of every context is cleared.
ClearAll(m) == [c \in DOMAIN m |-> [i \in 1..Len(m[c]) |-> ClearMessage(m[c][i])]]

-----------------------------------------------------------------------------
(* Export, reset and import over one catalog file.  Each action is one run  *)
(* of the program on the files: an export run, a reset run, an import run. *)

CsvNames == {<<"A">>, <<"B">>}

CsvMessages ==
    { MessageInfo(<<Location(<<"o">>, 7)>>, <<"s">>, <<"t", ",", "t">>, <<>>),
      MessageInfo(<<Location(<<"o">>, 7), Location(<<"o", ",">>, 12)>>, <<"u">>, <<"\"", "t">>, Unfinished),
      MessageInfo(<<>>, <<"o">>, <<"t">>, <<>>),
      MessageInfo(<<Location(<<"o">>, 2)>>, <<"s", " ">>, <<"t">>, <<>>),
      MessageInfo(<<Location(<<"o">>, 2)>>, <<"t">>, <<"t", "\n", "t">>, <<>>),
      MessageInfo(<<Location(<<"o">>, 0)>>, <<"s">>, <<>>, Unfinished) }

\* One context block of up to MaxMsgs messages, alone or followed by a block of
\* one message.
CsvBlockSeqs ==
    LET first  == Blocks(CsvNames, CsvMessages)
        second == {[name |-> nm, messages |-> <<msg>>] : nm \in CsvNames, msg \in CsvMessages}
    IN  {<<b>> : b \in first} \cup {<<b, c>> : b \in first, c \in second}

CsvDocuments == {InputDocument(bs, lc) : bs \in CsvBlockSeqs, lc \in LanguageCodes}

CsvInit ==
    /\ tsFile \in CsvDocuments
    /\ inputFile = tsFile
    /\ translations = EmptyMap
    /\ before = EmptyMap
    /\ pc = "start"
    /\ Idle

\* An export run: the parsed catalog is written to the CSV file.
ExportCsv ==
    /\ pc = "parsed"
    /\ csvFile' = exportToCsv(translations)
    /\ pc' = "exported"
    /\ UNCHANGED <<tsFile, translations, apiCallSize, ctxPos, msgPos, batchPhrases,
                   request, sentLog, replyLog, before, inputFile, onlyAsked,
                   templateFile, langPostfix>>

\* clearTranslation: the file is parsed, every message cleared, the file
\* written.  translations shows the local contextMap of the call.
ClearTranslation ==
    /\ pc \in {"start", "exported"}
    /\ \E run \in {parseTsFileRun(tsFile)} :
          /\ ~run.hang
          /\ before' = run.contextMap
          /\ translations' = ClearAll(before')
          /\ \E languageCode \in LanguageCodes :
                 tsFile' = writeTsFile(translations', languageCode)
    /\ pc' = IF pc = "start" THEN "cleared" ELSE "reset"
    /\ UNCHANGED <<csvFile, apiCallSize, ctxPos, msgPos, batchPhrases,
                   request, sentLog, replyLog, inputFile, onlyAsked,
                   templateFile, langPostfix>>

\* An import run on the cleared file: parseTsFile, then importFromCsv.
ImportCsv ==
    /\ pc = "reset"
    /\ \E run \in {parseTsFileRun(tsFile)} :
          /\ ~run.hang
          /\ translations' = importFromCsv(csvFile, run.contextMap)
    /\ pc' = "imported"
    /\ UNCHANGED <<tsFile, csvFile, apiCallSize, ctxPos, msgPos, batchPhrases,
                   request, sentLog, replyLog, before, inputFile, onlyAsked,
                   templateFile, langPostfix>>

CsvNext == ParseTs \/ ExportCsv \/ ClearTranslation \/ ImportCsv

SpecCsv == CsvInit /\ [][CsvNext]_vars

\* No two messages of a context share their source text.
UniqueSources(m) ==
    \A c \in DOMAIN m : \A i, j \in 1..Len(m[c]) : m[c][i].source = m[c][j].source => i = j

(* C9: for a catalog in which (context, source) pairs are unique, export,   *)
(* reset of a copy and import of the exported rows into the reset copy     *)
(* give every message the translation it had before the reset.             *)
C9_InterchangeRoundTrip ==
    (pc = "imported" /\ UniqueSources(before)) =>
        /\ DOMAIN translations = DOMAIN before
        /\ \A c \in DOMAIN before :
              /\ Len(translations[c]) = Len(before[c])
              /\ \A i \in 1..Len(before[c]) :
                    translations[c][i].translation = before[c][i].translation

\* No text starts or ends with white space or holds a line feed, and every
\* message has a location.
PlainText(s) == trimmed(s) = s /\ ~Contains(s, "\n")

PlainCatalog(m) ==
    \A c \in DOMAIN m :
        /\ PlainText(c)
        /\ \A i \in 1..Len(m[c]) :
              /\ m[c][i].locations # <<>>
              /\ PlainText(m[c][i].source)
              /\ PlainText(m[c][i].translation)

\* The round trip for the catalogs the CSV file can carry.
C9_PlainRoundTrip ==
    (pc = "imported" /\ UniqueSources(before) /\ PlainCatalog(before)) =>
        \A c \in DOMAIN before : \A i \in 1..Len(before[c]) :
            translations[c][i].translation = before[c][i].translation

(* C10: after clearTranslation every message of every context has an empty *)
(* translation and type unfinished, in memory and in the written file, and *)
(* the set of contexts, the order of the messages and every message's      *)
(* source and locations are as before the reset.                           *)
C10_Reset ==
    pc \in {"cleared", "reset"} =>
        /\ DOMAIN translations = DOMAIN before
        /\ \A c \in DOMAIN before :
              /\ Len(translations[c]) = Len(before[c])
              /\ \A i \in 1..Len(before[c]) :
                    /\ isEmpty(translations[c][i].translation)
                    /\ translations[c][i].translationType = Unfinished
                    /\ translations[c][i].source = before[c][i].source
                    /\ translations[c][i].locations = before[c][i].locations
        /\ parseTsFile(tsFile) = translations

\* A reset of two contexts that held a finished translation and a message with
\* two locations.
C10_Witness ==
    /\ pc = "cleared"
    /\ Cardinality(DOMAIN before) = 2
    /\ \E c \in DOMAIN before : \E i \in 1..Len(before[c]) :
          ~isEmpty(before[c][i].translation) /\ isEmpty(before[c][i].translationType)
    /\ \E c \in DOMAIN before : \E i \in 1..Len(before[c]) : Len(before[c][i].locations) = 2

-----------------------------------------------------------------------------
(* The translator's reply and processResponse.  A reply is what the JSON    *)
(* decoding of the response bytes yields: whether the bytes are empty,     *)
(* whether they are a JSON object, how many choices it holds, whether the  *)
(* content of the first choice is a JSON array, and the array's elements.  *)

Reply(empty, object, choices, isArray, array) ==
    [empty |-> empty, object |-> object, choices |-> choices, isArray |-> isArray, array |-> array]

\* An element of the returned array: a JSON object with source and
\* translation strings (absent keys read as empty strings), or another value.
Entry(source, translation) == [isObject |-> TRUE, source |-> source, translation |-> translation]
NotAnObject == [isObject |-> FALSE, source |-> <<>>, translation |-> <<>>]

EmptyReply     == Reply(TRUE, FALSE, 0, FALSE, <<>>)
NotJsonObject  == Reply(FALSE, FALSE, 0, FALSE, <<>>)
NoChoices      == Reply(FALSE, TRUE, 0, FALSE, <<>>)
ContentNoArray == Reply(FALSE, TRUE, 1, FALSE, <<>>)
ArrayReply(array) == Reply(FALSE, TRUE, 1, TRUE, array)

\* The early returns of processResponse, in their order.
Failed(reply) ==
    \/ reply.empty
    \/ ~reply.object
    \/ reply.choices = 0
    \/ ~reply.isArray

\* Lines 498-508: the QMap from source to translation built from the array;
\* a later element with the same source replaces the earlier one.
RECURSIVE BuildMapping(_, _)
BuildMapping(array, mapping) ==
    IF array = <<>> THEN mapping
    ELSE LET val == Head(array)
         IN  BuildMapping(Tail(array),
                          IF val.isObject /\ ~isEmpty(val.source)
                          THEN insert(mapping, val.source, val.translation)
                          ELSE mapping)

translationMapping(reply) == BuildMapping(reply.array, EmptyMap)

\* A merge that fills only the messages whose translation is still empty.
UpdateMessage_OnlyEmpty(mapping, msg) ==
    IF msg.source \in DOMAIN mapping /\ isEmpty(msg.translation)
    THEN [msg EXCEPT !.translation = mapping[msg.source], !.translationType = <<>>]
    ELSE msg

\* A merge that sets the text and leaves the type as it was.
UpdateMessage_KeepType(mapping, msg) ==
    IF msg.source \in DOMAIN mapping
    THEN [msg EXCEPT !.translation = mapping[msg.source]]
    ELSE msg

\* translation.cpp lines 511-516: the body of the update loop.
UpdateMessage(mapping, msg) ==
    IF msg.source \in DOMAIN mapping
    THEN [msg EXCEPT !.translation = mapping[msg.source], !.translationType = <<>>]
    ELSE msg

\* translation.cpp: processResponse(responseData, QList<MessageInfo> &messages).
processResponse(reply, messages) ==
    IF Failed(reply) THEN messages
    ELSE [i \in 1..Len(messages) |-> UpdateMessage(translationMapping(reply), messages[i])]

\* main.cpp lines 269-271: the body of the update loop of the first program.
UpdateMessageAll(mapping, msg) ==
    IF msg.source \in DOMAIN mapping
    THEN [msg EXCEPT !.translation = mapping[msg.source]]
    ELSE msg

\* main.cpp: processResponse(responseData, QMap<...> &translations).
processResponseAll(reply, m) ==
    IF Failed(reply) THEN m
    ELSE [c \in DOMAIN m |->
             [i \in 1..Len(m[c]) |-> UpdateMessageAll(translationMapping(reply), m[c][i])]]

-----------------------------------------------------------------------------
(* The first program (main.cpp): parseTsFile, the batching loop over the    *)
(* whole map with processResponse on the whole map, writeTsFile.  The      *)
(* blocking call of sendTranslationBatch is split in two: the request is   *)
(* sent, and the reply arrives and is processed.                           *)

DefaultApiCallSize == 50

BatchSizes == {-1, 0, 1, 2, DefaultApiCallSize}

OneLocation == <<Location(<<"o">>, 7)>>

PipelineMessages ==
    { MessageInfo(OneLocation, <<"s">>, <<>>, Unfinished),
      MessageInfo(OneLocation, <<"s">>, <<"o">>, <<>>),
      MessageInfo(OneLocation, <<"u">>, <<>>, Unfinished),
      MessageInfo(OneLocation, <<>>, <<>>, Unfinished),
      MessageInfo(OneLocation, <<"u">>, <<"o">>, Unfinished) }

SecondMessages ==
    { MessageInfo(OneLocation, <<"s">>, <<>>, Unfinished),
      MessageInfo(OneLocation, <<"s">>, <<"o">>, <<>>),
      MessageInfo(OneLocation, <<"u">>, <<>>, Unfinished) }

\* Context A with up to MaxMsgs messages, alone or followed by context B with
\* one message.
PipelineBlockSeqs ==
    LET first  == Blocks({<<"A">>}, PipelineMessages)
        second == {[name |-> <<"B">>, messages |-> <<msg>>] : msg \in SecondMessages}
    IN  {<<b>> : b \in first} \cup {<<b, c>> : b \in first, c \in second}

PipelineDocuments == {InputDocument(bs, lc) : bs \in PipelineBlockSeqs, lc \in LanguageCodes}

\* What the translator may answer.
Replies ==
    { EmptyReply, NotJsonObject, NoChoices, ContentNoArray,
      ArrayReply(<<>>),
      ArrayReply(<<Entry(<<"s">>, <<"t">>)>>),
      ArrayReply(<<Entry(<<"s">>, <<>>)>>),
      ArrayReply(<<Entry(<<"u">>, <<"t">>)>>),
      ArrayReply(<<Entry(<<"s">>, <<"t">>), Entry(<<"u">>, <<"t">>)>>),
      ArrayReply(<<NotAnObject, Entry(<<>>, <<"t">>)>>),
      ArrayReply(<<Entry(<<"s">>, <<"o">>), Entry(<<"s">>, <<"t">>)>>) }

Request(phrases, contextName) == [phrases |-> phrases, contextName |-> contextName]

\* The sources named by the reply are all among the phrases asked for.
NamesOnlyAsked(reply, req) ==
    \A k \in DOMAIN translationMapping(reply) :
        \E i \in 1..Len(req.phrases) : req.phrases[i] = k

PipelineInit ==
    /\ tsFile \in PipelineDocuments
    /\ inputFile = tsFile
    /\ translations = EmptyMap
    /\ before = EmptyMap
    /\ pc = "start"
    /\ apiCallSize \in BatchSizes
    /\ csvFile = <<>>
    /\ ctxPos = 0
    /\ msgPos = 0
    /\ batchPhrases = <<>>
    /\ request = <<>>
    /\ sentLog = <<>>
    /\ replyLog = <<>>
    /\ onlyAsked = TRUE
    /\ templateFile = <<>>
    /\ langPostfix = <<>>

\* The context the iterator contextIt stands on, and its messages.
contextName == keys(translations)[ctxPos + 1]
messages == translations[contextName]

\* A test that also selects the messages without a source text.
needsTranslation_AnySource(msg) == isEmpty(msg.translation)

\* A test that selects every message with a source text.
needsTranslation_Always(msg) == ~isEmpty(msg.source)

\* main.cpp line 356: the message has a source text and no translation.
needsTranslation(msg) == ~isEmpty(msg.source) /\ isEmpty(msg.translation)

\* A pass of the loop body that posts a full batch without waiting for the
\* call before it to return.
MainScanMessage_NoWait ==
    /\ pc = "parsed"
    /\ ctxPos < Len(keys(translations))
    /\ msgPos < Len(messages)
    /\ LET msg == messages[msgPos + 1]
       IN  IF needsTranslation(msg)
           THEN LET batch == Append(batchPhrases, msg.source)
                IN  /\ batchPhrases' = batch
                    /\ IF Len(batch) >= apiCallSize
                       THEN /\ request' = Append(request, Request(batch, <<>>))
                            /\ sentLog' = Append(sentLog, Request(batch, <<>>))
                       ELSE UNCHANGED <<request, sentLog>>
           ELSE UNCHANGED <<batchPhrases, request, sentLog>>
    /\ msgPos' = msgPos + 1
    /\ UNCHANGED <<tsFile, csvFile, translations, pc, apiCallSize, ctxPos,
                   replyLog, before, inputFile, onlyAsked,
                   templateFile, langPostfix>>

\* A pass of the loop body that sends the batch only when it holds more
\* phrases than the configured size.
MainScanMessage_SendLate ==
    /\ pc = "parsed"
    /\ request = <<>>
    /\ ctxPos < Len(keys(translations))
    /\ msgPos < Len(messages)
    /\ LET msg == messages[msgPos + 1]
       IN  IF needsTranslation(msg)
           THEN LET batch == Append(batchPhrases, msg.source)
                IN  /\ batchPhrases' = batch
                    /\ IF Len(batch) > apiCallSize
                       THEN /\ request' = <<Request(batch, <<>>)>>
                            /\ sentLog' = Append(sentLog, Request(batch, <<>>))
                       ELSE UNCHANGED <<request, sentLog>>
           ELSE UNCHANGED <<batchPhrases, request, sentLog>>
    /\ msgPos' = msgPos + 1
    /\ UNCHANGED <<tsFile, csvFile, translations, pc, apiCallSize, ctxPos,
                   replyLog, before, inputFile, onlyAsked,
                   templateFile, langPostfix>>

\* main.cpp lines 355-363: one pass of the body of the loop over the messages.
\* A message with a source and no translation is appended to the batch; a full
\* batch is sent.
MainScanMessage ==
    /\ pc = "parsed"
    /\ request = <<>>
    /\ ctxPos < Len(keys(translations))
    /\ msgPos < Len(messages)
    /\ LET msg == messages[msgPos + 1]
       IN  IF needsTranslation(msg)
           THEN LET batch == Append(batchPhrases, msg.source)
                IN  /\ batchPhrases' = batch
                    /\ IF Len(batch) >= apiCallSize
                       THEN /\ request' = <<Request(batch, <<>>)>>
                            /\ sentLog' = Append(sentLog, Request(batch, <<>>))
                       ELSE UNCHANGED <<request, sentLog>>
           ELSE UNCHANGED <<batchPhrases, request, sentLog>>
    /\ msgPos' = msgPos + 1
    /\ UNCHANGED <<tsFile, csvFile, translations, pc, apiCallSize, ctxPos,
                   replyLog, before, inputFile, onlyAsked,
                   templateFile, langPostfix>>

\* The loop over the messages of a context is over: ++contextIt.
MainNextContext ==
    /\ pc = "parsed"
    /\ request = <<>>
    /\ ctxPos < Len(keys(translations))
    /\ msgPos = Len(messages)
    /\ ctxPos' = ctxPos + 1
    /\ msgPos' = 0
    /\ UNCHANGED <<tsFile, csvFile, translations, pc, apiCallSize, batchPhrases,
                   request, sentLog, replyLog, before, inputFile, onlyAsked,
                   templateFile, langPostfix>>

\* main.cpp lines 367-372: after the loops the remaining phrases are sent.
MainFlush ==
    /\ pc = "parsed"
    /\ request = <<>>
    /\ ctxPos = Len(keys(translations))
    /\ IF ~isEmpty(batchPhrases)
       THEN /\ request' = <<Request(batchPhrases, <<>>)>>
            /\ sentLog' = Append(sentLog, Request(batchPhrases, <<>>))
            /\ pc' = "flush"
       ELSE /\ pc' = "translated"
            /\ UNCHANGED <<request, sentLog>>
    /\ UNCHANGED <<tsFile, csvFile, translations, apiCallSize, ctxPos, msgPos,
                   batchPhrases, before, inputFile, replyLog, onlyAsked,
                   templateFile, langPostfix>>

\* A reply step that gives up the run when the call has failed.
MainReply_AbortOnFailure ==
    /\ request # <<>>
    /\ \E reply \in Replies :
          /\ translations' = processResponseAll(reply, translations)
          /\ replyLog' = Append(replyLog, reply)
          /\ onlyAsked' = (onlyAsked /\ NamesOnlyAsked(reply, request[1]))
          /\ pc' = IF pc = "flush" \/ Failed(reply) THEN "translated" ELSE pc
    /\ batchPhrases' = <<>>
    /\ request' = <<>>
    /\ UNCHANGED <<tsFile, csvFile, apiCallSize, ctxPos, msgPos, sentLog,
                   before, inputFile,
                   templateFile, langPostfix>>

\* sendTranslationBatch returns and processResponse merges the reply into the
\* whole map; the batch is cleared.
MainReply ==
    /\ request # <<>>
    /\ \E reply \in Replies :
          /\ translations' = processResponseAll(reply, translations)
          /\ replyLog' = Append(replyLog, reply)
          /\ onlyAsked' = (onlyAsked /\ NamesOnlyAsked(reply, request[1]))
    /\ batchPhrases' = <<>>
    /\ request' = <<>>
    /\ pc' = IF pc = "flush" THEN "translated" ELSE pc
    /\ UNCHANGED <<tsFile, csvFile, apiCallSize, ctxPos, msgPos, sentLog,
                   before, inputFile,
                   templateFile, langPostfix>>

EnUS == <<"e", "n", "_", "U", "S">>

\* main.cpp lines 374-378: the map is written back to the TS file.
MainWriteBack ==
    /\ pc = "translated"
    /\ tsFile' = writeTsFile(translations, EnUS)
    /\ pc' = "done"
    /\ UNCHANGED <<csvFile, translations, apiCallSize, ctxPos, msgPos, batchPhrases,
                   request, sentLog, replyLog, before, inputFile, onlyAsked,
                   templateFile, langPostfix>>

MainNext ==
    \/ ParseTs
    \/ MainScanMessage
    \/ MainNextContext
    \/ MainFlush
    \/ MainReply
    \/ MainWriteBack

SpecMain == PipelineInit /\ [][MainNext]_vars


\* The run is over: every batch has been answered and the loops are done.
RunOver == pc \in {"translated", "done"}

\* The phrases of all requests sent so far, in the order sent.
RECURSIVE SentPhrases(_)
SentPhrases(log) ==
    IF log = <<>> THEN <<>> ELSE Head(log).phrases \o SentPhrases(Tail(log))

Range(seq) == {seq[i] : i \in 1..Len(seq)}

\* The messages of the catalog as it was parsed, before any batch.
MessagesBefore == AllMessages(before)

\* C1: a pipeline run never changes the translation or the state of a message
\* whose translation was non-empty before the run, whatever the catalog, the
\* batch size and the replies of the translator.
C1_FinishedUntouched ==
    pc # "start" =>
        \A c \in DOMAIN before : \A i \in 1..Len(before[c]) :
            ~isEmpty(before[c][i].translation) =>
                /\ translations[c][i].translation = before[c][i].translation
                /\ translations[c][i].translationType = before[c][i].translationType

\* C2: at the end of a run the set of all phrases sent over all batches is
\* exactly the set of distinct source texts of the messages whose translation
\* was empty before the run.
C2_BatchCoverage ==
    RunOver =>
        Range(SentPhrases(sentLog))
            = {msg.source : msg \in {x \in Range(MessagesBefore) : isEmpty(x.translation)}}

\* C2 (as the code has it): at the end of a run in which every reply names only
\* phrases of the batch it answers, the set of all phrases sent is exactly the
\* set of distinct non-empty source texts of the messages whose translation
\* was empty before the run.
C2_BatchCoverageNonEmpty ==
    (RunOver /\ onlyAsked) =>
        Range(SentPhrases(sentLog))
            = {msg.source : msg \in {x \in Range(MessagesBefore) :
                                        isEmpty(x.translation) /\ ~isEmpty(x.source)}}

\* A finished run of two batches in which a message without source text and
\* without translation was left out.
C2_Witness ==
    /\ pc = "done"
    /\ onlyAsked
    /\ Len(sentLog) = 2
    /\ \E x \in Range(MessagesBefore) : isEmpty(x.translation) /\ isEmpty(x.source)
    /\ \E x \in Range(MessagesBefore) : isEmpty(x.translation) /\ ~isEmpty(x.source)


\* The source texts that the loop of main.cpp selects from the parsed catalog
\* when no reply changes anything, in the order of the scan.
PendingSources ==
    SelectSeq([i \in 1..Len(MessagesBefore) |-> MessagesBefore[i]], needsTranslation)

RECURSIVE Sources(_)
Sources(msgs) == IF msgs = <<>> THEN <<>> ELSE <<Head(msgs).source>> \o Sources(Tail(msgs))

\* C3, the step: when the call fails (empty reply, reply that is not a JSON
\* object, no choices, content that is not a JSON array), the step that
\* receives the reply changes no message, empties the batch, sends nothing
\* again and leaves the scan where it was.
FailedCallStep ==
    (request # <<>> /\ request' = <<>> /\ Failed(replyLog'[Len(replyLog')])) =>
        /\ translations' = translations
        /\ batchPhrases' = <<>>
        /\ sentLog' = sentLog
        /\ ctxPos' = ctxPos
        /\ msgPos' = msgPos
        /\ pc' \in {"parsed", "translated"}

\* C3, the run: when every call of a run has failed, the catalog at the end is
\* the parsed one, and the batches sent are, put end to end, the source texts
\* of the untranslated messages, each sent once for each such message: no
\* batch was sent twice and no later batch was left out.
AllCallsFailedRun ==
    (RunOver /\ \A i \in 1..Len(replyLog) : Failed(replyLog[i])) =>
        /\ translations = before
        /\ SentPhrases(sentLog) = Sources(PendingSources)
        /\ Len(replyLog) = Len(sentLog)

\* How far the run has come: the stage of the program, then the context and
\* the message the scan stands on, then the number of replies received.
Stage ==
    CASE pc = "start" -> 0
      [] pc = "parsed" -> 1
      [] pc = "flush" -> 2
      [] pc = "translated" -> 3
      [] pc = "done" -> 4

Progress == <<Stage, ctxPos, msgPos, Len(replyLog)>>

RECURSIVE LexLess(_, _)
LexLess(a, b) ==
    /\ a # <<>>
    /\ \/ Head(a) < Head(b)
       \/ Head(a) = Head(b) /\ LexLess(Tail(a), Tail(b))

\* C3, completion: every step moves the run forward in an order that has no
\* infinite ascent (the scan positions are bounded by the catalog and the
\* replies by the requests), and the run can always take a step until the
\* file is written; a failed call is a step like any other.  (At "start" the
\* only condition of ParseTs is that the parse returns, and at "translated"
\* MainWriteBack has no further condition.)
Advances == LexLess(Progress, Progress')

NeverStuck ==
    CASE pc = "done" -> TRUE
      [] pc = "start" -> ~parseTsFileRun(tsFile).hang
      [] pc = "translated" -> TRUE
      [] OTHER -> \/ ENABLED MainScanMessage
                  \/ ENABLED MainNextContext
                  \/ ENABLED MainFlush
                  \/ ENABLED MainReply

\* C3: a failed call changes no message of the catalog, the batch is not
\* retried, and the pipeline still dispatches every later batch and completes
\* the run.
C3_FailedCall ==
    /\ [][FailedCallStep /\ Advances]_vars
    /\ [](AllCallsFailedRun /\ NeverStuck)

\* A finished run whose first call failed and whose second call filled a
\* translation.
C3_Witness ==
    /\ pc = "done"
    /\ Len(replyLog) >= 2
    /\ Failed(replyLog[1])
    /\ ~Failed(replyLog[2])
    /\ translations # before

AllTranslated(m) == \A msg \in Range(AllMessages(m)) : ~isEmpty(msg.translation)

\* C5: a run on a catalog in which every message already has a non-empty
\* translation issues no call and leaves every context, message, location,
\* translation and state unchanged, so that parsing the file written at the
\* end gives back the same catalog.
C5_Idempotence ==
    (pc # "start" /\ AllTranslated(before)) =>
        /\ sentLog = <<>>
        /\ translations = before
        /\ pc = "done" => parseTsFile(tsFile) = before

\* C5 (as the code has it): such a run issues no call and leaves the catalog in
\* memory unchanged, state included; parsing the file written at the end gives
\* back the same contexts, messages, locations, source and translation texts,
\* and every message comes back without the pending marker.
C5_IdempotenceText ==
    (pc # "start" /\ AllTranslated(before)) =>
        /\ sentLog = <<>>
        /\ translations = before
        /\ pc = "done" =>
              /\ SameText(parseTsFile(tsFile), before)
              /\ \A msg \in Range(AllMessages(parseTsFile(tsFile))) :
                    isEmpty(msg.translationType)

\* A finished run on a fully translated catalog of two contexts, one message
\* of which was read with the pending marker.
C5_Witness ==
    /\ pc = "done"
    /\ AllTranslated(before)
    /\ DOMAIN before = {<<"A">>, <<"B">>}
    /\ \E msg \in Range(MessagesBefore) : msg.translationType = Unfinished




\* The translator that answers every call with the mapping {s: t}.
StubReply == ArrayReply(<<Entry(<<"s">>, <<"t">>)>>)

StubRun ==
    /\ RunOver
    /\ replyLog # <<>>
    /\ \A i \in 1..Len(replyLog) : replyLog[i] = StubReply

\* C4: with a translator that returns exactly {s: t} on every call, after a
\* run that called it every message of every context whose source is s has
\* translation t and state Finished (no pending type), and every message with
\* another source is as it was parsed; two contexts that each hold an
\* untranslated message with source s are both filled.
C4_MergeCorrectness ==
    StubRun =>
        \A c \in DOMAIN before : \A i \in 1..Len(before[c]) :
            IF before[c][i].source = <<"s">>
            THEN /\ translations[c][i].translation = <<"t">>
                 /\ isEmpty(translations[c][i].translationType)
                 /\ translations[c][i].locations = before[c][i].locations
            ELSE translations[c][i] = before[c][i]

\* The part of C4 that main.cpp keeps: the translation texts, in every context.
C4_TranslationsMerged ==
    StubRun =>
        \A c \in DOMAIN before : \A i \in 1..Len(before[c]) :
            IF before[c][i].source = <<"s">>
            THEN translations[c][i] = [before[c][i] EXCEPT !.translation = <<"t">>]
            ELSE translations[c][i] = before[c][i]

-----------------------------------------------------------------------------
(* An import run on arbitrary rows: the catalog file is parsed and          *)
(* importFromCsv applies a CSV file that need not come from an export.     *)

\* Data lines a CSV file may hold: a row for a message of A, a row with an
\* empty translation, a row for a context that is not there, a row whose line
\* number is no integer, a row for a source that is not there, a row with too
\* few fields, a blank line, a quoted row for B, a second value for source s.
ImportLinePool ==
    { <<"A", ",", "o", ",", "7", ",", "s", ",", "t">>,
      <<"A", ",", "o", ",", "7", ",", "s", ",">>,
      <<"C", ",", "o", ",", "7", ",", "s", ",", "t">>,
      <<"A", ",", "o", ",", "x", ",", "s", ",", "t">>,
      <<"A", ",", "o", ",", "7", ",", "o", ",", "t">>,
      <<"A", ",", "o", ",", "7">>,
      <<" ">>,
      <<"B", ",", "o", ",", "2", ",", "\"", "u", "\"", ",", "\"", "t", ",", "t", "\"">>,
      <<" ", "A", " ", ",", "o", ",", " ", "1", "2", ",", "s", ",", "o", " ">> }

RECURSIVE JoinLines(_)
JoinLines(lines) ==
    IF lines = <<>> THEN <<>> ELSE Head(lines) \o <<"\n">> \o JoinLines(Tail(lines))

\* A header line followed by no, one or two data lines.
ImportFiles ==
    {CsvHeader \o JoinLines(ls) :
        ls \in {<<>>} \cup {<<a>> : a \in ImportLinePool}
                      \cup {<<a, b>> : a \in ImportLinePool, b \in ImportLinePool}}

ImportMessages ==
    { MessageInfo(<<Location(<<"o">>, 7)>>, <<"s">>, <<>>, Unfinished),
      MessageInfo(<<Location(<<"o">>, 7), Location(<<"o">>, 12)>>, <<"s">>, <<"o">>, <<>>),
      MessageInfo(<<>>, <<"u">>, <<"o">>, Unfinished) }

ImportDocuments ==
    {InputDocument(bs, lc) :
        bs \in BlockSeqs(Blocks({<<"A">>}, ImportMessages),
                         SingleBlocks({<<"B">>}, ImportMessages)),
        lc \in LanguageCodes}

ImportInit ==
    /\ tsFile \in ImportDocuments
    /\ inputFile = tsFile
    /\ csvFile \in ImportFiles
    /\ translations = EmptyMap
    /\ before = EmptyMap
    /\ pc = "start"
    /\ apiCallSize = 0
    /\ ctxPos = 0
    /\ msgPos = 0
    /\ batchPhrases = <<>>
    /\ request = <<>>
    /\ sentLog = <<>>
    /\ replyLog = <<>>
    /\ onlyAsked = TRUE
    /\ templateFile = <<>>
    /\ langPostfix = <<>>

\* importFromCsv on the map that parseTsFile has returned.
ImportRows ==
    /\ pc = "parsed"
    /\ translations' = importFromCsv(csvFile, translations)
    /\ pc' = "imported"
    /\ UNCHANGED <<tsFile, csvFile, apiCallSize, ctxPos, msgPos, batchPhrases,
                   request, sentLog, replyLog, before, inputFile, onlyAsked,
                   templateFile, langPostfix>>

ImportNext == ParseTs \/ ImportRows

SpecImport == ImportInit /\ [][ImportNext]_vars

\* The data lines of the CSV file, as importFromCsv reads them.
DataLines == Tail(ReadLines(csvFile))

\* C11: whatever the rows, import never adds or removes a context, never adds,
\* removes or reorders a message, and never changes the source or the
\* locations of a message; only translation and state can change.
C11_ImportFrame ==
    pc = "imported" =>
        /\ DOMAIN translations = DOMAIN before
        /\ \A c \in DOMAIN before :
              /\ Len(translations[c]) = Len(before[c])
              /\ \A i \in 1..Len(before[c]) :
                    /\ translations[c][i].source = before[c][i].source
                    /\ translations[c][i].locations = before[c][i].locations

\* An import that changed a message, from a file that also holds a row for a
\* context the catalog does not have or for a source its context does not have.
C11_Witness ==
    /\ pc = "imported"
    /\ translations # before
    /\ \E i \in 1..Len(DataLines) :
          \/ DataLines[i][1] \notin {"A", "B", " "}
          \/ DataLines[i] = <<"A", ",", "o", ",", "7", ",", "o", ",", "t">>

-----------------------------------------------------------------------------
(* Runs on a catalog file that is missing or malformed.  A malformed file   *)
(* is a well-formed document cut at some token, where the XML reader       *)
(* reports an error.                                                       *)

\* The file at tsFilePath does not exist: QFile::open for reading fails.
NoFile == <<[type |-> "NoFile", name |-> "", attrs |-> <<>>, text |-> <<>>]>>

\* parseTsFile on a path: an empty map when the file cannot be opened (lines
\* 34-38), the outcome of the loops otherwise.
parseTsFilePath(file) ==
    IF file = NoFile
    THEN [hang |-> FALSE, error |-> FALSE, contextMap |-> EmptyMap]
    ELSE parseTsFileRun(file)

\* The document cut after its first k tokens, the reader failing there.
CutAt(doc, k) == SubSeq(doc, 1, k) \o <<Invalid>>

FileMessages ==
    { MessageInfo(OneLocation, <<"s">>, <<>>, Unfinished),
      MessageInfo(OneLocation, <<"u">>, <<"o">>, <<>>) }

WellFormedFiles ==
    {InputDocument(bs, lc) :
        bs \in BlockSeqs(Blocks({<<"A">>}, FileMessages),
                         SingleBlocks({<<"B">>}, FileMessages)),
        lc \in LanguageCodes}

\* Where a document is cut: in the prologue, near the end, after the end tag
\* of a context, and after the end tag of a source text.
CutPositions(doc) ==
    (0..3) \cup {Len(doc) - k : k \in 1..3}
    \cup {i \in 1..Len(doc) : IsEnd(doc, [pos |-> i, err |-> FALSE], "context")}
    \cup {i \in 1..Len(doc) : IsEnd(doc, [pos |-> i, err |-> FALSE], "source")}

MalformedFiles ==
    UNION {{CutAt(doc, k) : k \in CutPositions(doc)} : doc \in WellFormedFiles}

FileInit ==
    /\ tsFile \in WellFormedFiles \cup MalformedFiles \cup {NoFile}
    /\ inputFile = tsFile
    /\ translations = EmptyMap
    /\ before = EmptyMap
    /\ pc = "start"
    /\ apiCallSize \in BatchSizes
    /\ csvFile = <<>>
    /\ ctxPos = 0
    /\ msgPos = 0
    /\ batchPhrases = <<>>
    /\ request = <<>>
    /\ sentLog = <<>>
    /\ replyLog = <<>>
    /\ onlyAsked = TRUE
    /\ templateFile = <<>>
    /\ langPostfix = <<>>

\* main.cpp line 347: translations = parseTsFile(tsFilePath); the map returned
\* is used whatever was reported.
ParseFile ==
    /\ pc = "start"
    /\ \E run \in {parseTsFilePath(tsFile)} :
          /\ ~run.hang
          /\ translations' = run.contextMap
    /\ before' = translations'
    /\ pc' = "parsed"
    /\ UNCHANGED <<tsFile, csvFile, apiCallSize, ctxPos, msgPos, batchPhrases,
                   request, sentLog, replyLog, inputFile, onlyAsked,
                   templateFile, langPostfix>>

FileNext ==
    \/ ParseFile
    \/ ClearTranslation
    \/ MainScanMessage
    \/ MainNextContext
    \/ MainFlush
    \/ MainReply
    \/ MainWriteBack

SpecFile == FileInit /\ [][FileNext]_vars

\* The catalog file of the run cannot be opened, or the reader reports an
\* error in it (whether or not parseTsFile returns).
BadFile(file) ==
    \/ file = NoFile
    \/ parseTsFileRun(file).error

\* C12: when the catalog file cannot be opened or is malformed, the run aborts
\* with failure status: no translator call is made, the catalog is not reset
\* and not written, and the run does not end with status 0.
C12_AbortOnBadFile ==
    BadFile(inputFile) =>
        /\ sentLog = <<>>
        /\ tsFile = inputFile
        /\ pc \notin {"done", "cleared"}


\* C13: when the catalog document is malformed, parseTsFile returns an empty
\* map: no context at all, also none of those that came before the malformed
\* part.  (What the caller gets is the map alone, so this is also the only
\* way it could tell the failure.)
C13_EmptyOnMalformed ==
    (pc = "parsed" /\ inputFile # NoFile /\ parseTsFileRun(inputFile).error) =>
        translations = EmptyMap

-----------------------------------------------------------------------------
(* What a CSV reader finds in the exported file: records end at a line feed *)
(* outside quotes, fields are separated by commas outside quotes.          *)

QuotesIn(text, from, to) == Cardinality({i \in from..to : text[i] = "\""})

\* The records of the text that start at position start or later.
RECURSIVE RecordsFrom(_, _)
RecordsFrom(text, start) ==
    IF start > Len(text) THEN <<>>
    ELSE LET ends == {i \in start..Len(text) :
                        text[i] = "\n" /\ QuotesIn(text, start, i - 1) % 2 = 0}
             stop == IF ends = {} THEN Len(text) + 1
                     ELSE CHOOSE i \in ends : \A j \in ends : i <= j
         IN  <<SubSeq(text, start, stop - 1)>> \o RecordsFrom(text, stop + 1)

Records(text) == RecordsFrom(text, 1)

\* The (context, message, location) triples of the map, in the order of the
\* contexts, the messages and the locations.
RECURSIVE LocationTriples(_, _, _)
LocationTriples(name, msg, locations) ==
    IF locations = <<>> THEN <<>>
    ELSE <<[name |-> name, loc |-> Head(locations), msg |-> msg]>>
         \o LocationTriples(name, msg, Tail(locations))

RECURSIVE MessageTriples(_, _)
MessageTriples(name, msgs) ==
    IF msgs = <<>> THEN <<>>
    ELSE LocationTriples(name, Head(msgs), Head(msgs).locations)
         \o MessageTriples(name, Tail(msgs))

RECURSIVE CatalogTriples(_, _)
CatalogTriples(m, ks) ==
    IF ks = <<>> THEN <<>>
    ELSE MessageTriples(Head(ks), m[Head(ks)]) \o CatalogTriples(m, Tail(ks))

\* The record carries the triple: five fields, the name of the context, the
\* filename and the line of the location, the source and the translation.
RowCarries(record, triple) ==
    \E fields \in {parseCsvLine(record)} :
        /\ Len(fields) = 5
        /\ fields[1] = triple.name
        /\ fields[2] = triple.loc.filename
        /\ toInt(fields[3]).ok
        /\ toInt(fields[3]).value = triple.loc.line
        /\ fields[4] = triple.msg.source
        /\ fields[5] = triple.msg.translation

\* C14: after the header row the exported file holds exactly one row for each
\* (context, message, location) triple of the catalog, carrying the name of
\* the context, the filename and line of the location and the source and
\* translation of the message, and no other row; a message with n locations
\* gives n rows.
C14_RowPerLocation ==
    pc = "exported" =>
        \E records \in {Records(csvFile)}, triples \in {CatalogTriples(translations, keys(translations))} :
            /\ Len(records) = 1 + Len(triples)
            /\ records[1] = <<"BOM">> \o SubSeq(CsvHeader, 1, Len(CsvHeader) - 1)
            /\ \A i \in 1..Len(triples) : RowCarries(records[i + 1], triples[i])

\* An exported catalog with a message of two locations, a message of none and
\* a translation that holds a line feed.
C14_Witness ==
    /\ pc = "exported"
    /\ \E msg \in Range(AllMessages(translations)) : Len(msg.locations) = 2
    /\ \E msg \in Range(AllMessages(translations)) : Len(msg.locations) = 0
    /\ \E msg \in Range(AllMessages(translations)) :
          Len(msg.locations) > 0 /\ Contains(msg.translation, "\n")

\* ---------------------------------------------------------------------------
\* createTsFileFromTemplate: the new TS file is the text of the template with
\* the regular expression  language="[^"]*"  replaced everywhere.
\* ---------------------------------------------------------------------------

LanguageName == <<"l", "a", "n", "g", "u", "a", "g", "e">>

SourceLanguageName == <<"s", "o", "u", "r", "c", "e">> \o LanguageName

VersionName == <<"v", "e", "r", "s", "i", "o", "n">>

\* The literal head of the pattern: language="
PatternHead == LanguageName \o <<"=", "\"">>

\* Position of the quote that ends a match of the pattern begun at i, or 0 when
\* the pattern does not match at i. [^"]* stops at the first quote.
MatchEnd(content, i) ==
    IF /\ i + Len(PatternHead) - 1 <= Len(content)
       /\ SubSeq(content, i, i + Len(PatternHead) - 1) = PatternHead
       /\ \E j \in (i + Len(PatternHead))..Len(content) : content[j] = "\""
    THEN CHOOSE j \in (i + Len(PatternHead))..Len(content) :
             /\ content[j] = "\""
             /\ \A k \in (i + Len(PatternHead))..(j - 1) : content[k] # "\""
    ELSE 0

\* Start of the leftmost match at or after from, or 0 when there is none.
MatchStart(content, from) ==
    IF \E i \in from..Len(content) : MatchEnd(content, i) # 0
    THEN CHOOSE i \in from..Len(content) :
             /\ MatchEnd(content, i) # 0
             /\ \A k \in from..(i - 1) : MatchEnd(content, k) = 0
    ELSE 0

\* QString::replace(QRegularExpression, QString): every match, left to right,
\* none overlapping another.
RECURSIVE ReplaceFrom(_, _, _)
ReplaceCopy(content, from, i, after) ==
    SubSeq(content, from, i - 1) \o after
        \o ReplaceFrom(content, MatchEnd(content, i) + 1, after)

ReplaceFrom(content, from, after) ==
    IF MatchStart(content, from) = 0
    THEN SubSeq(content, from, Len(content))
    ELSE ReplaceCopy(content, from, MatchStart(content, from), after)

createTsFileFromTemplate(content, postfix) ==
    ReplaceFrom(content, 1, PatternHead \o postfix \o <<"\"">>)

\* A template as text: the root element with its attributes, a body, the end
\* of the root element.
AttrText(a) == a.name \o <<"=", "\"">> \o a.value \o <<"\"">>

RECURSIVE AttrsText(_)
AttrsText(attrs) ==
    IF attrs = <<>> THEN <<>>
    ELSE <<" ">> \o AttrText(Head(attrs)) \o AttrsText(Tail(attrs))

Render(shape) ==
    <<"<", "T", "S">> \o AttrsText(shape.root) \o <<">">> \o shape.body
        \o <<"<", "/", "T", "S", ">">>

RootAttrs ==
    { [name |-> LanguageName, value |-> <<"o">>],
      [name |-> LanguageName, value |-> <<>>],
      [name |-> SourceLanguageName, value |-> <<"o">>],
      [name |-> VersionName, value |-> <<"2">>] }

RootAttrLists ==
    {<<>>} \cup {<<a>> : a \in RootAttrs}
           \cup {<<a, b>> : a \in RootAttrs, b \in RootAttrs}

\* No body, an element with text, a text that reads language="t", an element
\* below the root with an attribute called language.
TemplateBodies ==
    { <<>>,
      <<"<", "s", ">", "s", "<", "/", "s", ">">>,
      <<"<", "s", ">">> \o PatternHead \o <<"t", "\"", "<", "/", "s", ">">>,
      <<"<", "m", " ">> \o PatternHead \o <<"o", "\"", "/", ">">> }

TemplateShapes == [root : RootAttrLists, body : TemplateBodies]

Templates == {Render(shape) : shape \in TemplateShapes}

NewLanguages == {<<"t">>, <<"t", "r">>}

TemplateInit ==
    /\ templateFile \in Templates \cup {NoFile}
    /\ langPostfix \in NewLanguages
    /\ tsFile = NoFile
    /\ inputFile = tsFile
    /\ translations = EmptyMap
    /\ before = EmptyMap
    /\ pc = "start"
    /\ csvFile = <<>>
    /\ apiCallSize = 0
    /\ ctxPos = 0
    /\ msgPos = 0
    /\ batchPhrases = <<>>
    /\ request = <<>>
    /\ sentLog = <<>>
    /\ replyLog = <<>>
    /\ onlyAsked = TRUE

\* createTsFileFromTemplate: false when the template is not there, else the
\* new file holds the replaced text.
CreateFromTemplate ==
    /\ pc = "start"
    /\ IF templateFile = NoFile
       THEN /\ pc' = "failed"
            /\ UNCHANGED tsFile
       ELSE /\ pc' = "created"
            /\ tsFile' = createTsFileFromTemplate(templateFile, langPostfix)
    /\ UNCHANGED <<csvFile, translations, apiCallSize, ctxPos, msgPos, batchPhrases,
                   request, sentLog, replyLog, before, inputFile, onlyAsked,
                   templateFile, langPostfix>>

TemplateNext == CreateFromTemplate

SpecTemplate == TemplateInit /\ [][TemplateNext]_vars

RECURSIVE SetLanguage(_, _)
SetLanguage(attrs, postfix) ==
    IF attrs = <<>> THEN <<>>
    ELSE <<IF Head(attrs).name = LanguageName
           THEN [Head(attrs) EXCEPT !.value = postfix]
           ELSE Head(attrs)>> \o SetLanguage(Tail(attrs), postfix)

WithLanguage(shape, postfix) ==
    [shape EXCEPT !.root = SetLanguage(shape.root, postfix)]

\* C15: the file created from a template is the template with the value of the
\* root element's language attribute replaced by the new code, and nothing
\* else of the template is changed.
C15_OnlyRootLanguage ==
    pc = "created" =>
        \A shape \in TemplateShapes :
            Render(shape) = templateFile =>
                tsFile = Render(WithLanguage(shape, langPostfix))

\* ---------------------------------------------------------------------------
\* The run as a whole, with a translator that answers every phrase.
\* ---------------------------------------------------------------------------

\* The reply gives a non-empty translation for every phrase of the request.
AnswersAll(reply, req) ==
    /\ ~Failed(reply)
    /\ \A i \in 1..Len(req.phrases) :
           /\ req.phrases[i] \in DOMAIN translationMapping(reply)
           /\ ~isEmpty(translationMapping(reply)[req.phrases[i]])

TranslatorAnswersAll ==
    /\ Len(replyLog) = Len(sentLog)
    /\ \A k \in 1..Len(replyLog) : AnswersAll(replyLog[k], sentLog[k])

\* The values the translator gave for a source in the course of the run.
ValuesFor(source) ==
    {translationMapping(replyLog[k])[source] :
        k \in {j \in 1..Len(replyLog) :
                  ~Failed(replyLog[j]) /\ source \in DOMAIN translationMapping(replyLog[j])}}

ScenarioA ==
    /\ apiCallSize = 1
    /\ DOMAIN before = {<<"A">>}
    /\ before[<<"A">>] = <<MessageInfo(OneLocation, <<"s">>, <<>>, Unfinished)>>

\* C16: when the translator answers every phrase it is asked with a non-empty
\* translation, at the end of the run every message that had no translation
\* before the run has the translator's value for its source and is finished;
\* with one context of one such message and batch size 1 there was exactly one
\* call, with that phrase alone.
C16_EndToEnd ==
    (pc = "done" /\ TranslatorAnswersAll) =>
        /\ \A c \in DOMAIN before : \A i \in 1..Len(before[c]) :
               isEmpty(before[c][i].translation) =>
                   /\ translations[c][i].translation \in ValuesFor(before[c][i].source)
                   /\ translations[c][i].translationType = <<>>
        /\ ScenarioA =>
               /\ Len(sentLog) = 1
               /\ sentLog[1].phrases = <<<<"s">>>>

\* ---------------------------------------------------------------------------
\* One call at a time.
\* ---------------------------------------------------------------------------

\* A step that dispatches a batch: no call is outstanding, every call made so
\* far has been answered, and the step itself merges nothing.
DispatchStep ==
    (sentLog' # sentLog) =>
        /\ request = <<>>
        /\ Len(replyLog) = Len(sentLog)
        /\ request' = <<sentLog'[Len(sentLog')]>>
        /\ sentLog' = Append(sentLog, request'[1])
        /\ replyLog' = replyLog
        /\ translations' = translations

\* A step in which a call returns: it is the outstanding one, its reply is
\* merged into the catalog in the same step, and no call is outstanding after.
ReturnStep ==
    (replyLog' # replyLog) =>
        /\ request # <<>>
        /\ request' = <<>>
        /\ sentLog' = sentLog
        /\ Len(replyLog') = Len(replyLog) + 1
        /\ translations' = processResponseAll(replyLog'[Len(replyLog')], translations)

\* C17: at every point of a run at most one translator call is outstanding; a
\* batch is dispatched only after the call of the batch before it has returned
\* (with whatever outcome) and its reply has been merged into the catalog.
C17_OneOutstanding ==
    /\ [](Len(request) <= 1 /\ Len(sentLog) = Len(replyLog) + Len(request))
    /\ [][DispatchStep /\ ReturnStep]_vars

\* A second batch is outstanding after the first call failed.
C17_Witness ==
    /\ Len(sentLog) = 2
    /\ request # <<>>
    /\ Failed(replyLog[1])

\* ---------------------------------------------------------------------------
\* The reach of a merge.
\* ---------------------------------------------------------------------------

\* The contexts the loop of main has not reached when a batch sent from the
\* loop body returns: no phrase of that batch was collected from them.
ContextsAhead == {keys(translations)[k] : k \in (ctxPos + 2)..Len(keys(translations))}

\* C18: merging the reply of a batch changes only messages of the context the
\* batch was collected from; a message of another context keeps translation
\* and state, even when its source is a key of the returned mapping.
C18_MergeFrame ==
    [][(replyLog' # replyLog /\ pc = "parsed") =>
          \A c \in ContextsAhead : translations'[c] = translations[c]]_vars

\* ---------------------------------------------------------------------------
\* processResponse of translation.cpp on the list of messages of one context.
\* ---------------------------------------------------------------------------

MergeLists ==
    {<<>>} \cup {<<a>> : a \in PipelineMessages}
           \cup {<<a, b>> : a \in PipelineMessages, b \in PipelineMessages}

\* The phrases a batch over the list asks for.
RECURSIVE Requested(_)
Requested(msgs) ==
    IF msgs = <<>> THEN <<>>
    ELSE (IF needsTranslation(Head(msgs)) THEN <<Head(msgs).source>> ELSE <<>>)
             \o Requested(Tail(msgs))

\* The list of context A has been read and its batch has been sent.
MergeInit ==
    /\ \E msgs \in MergeLists :
          /\ translations = (<<"A">> :> msgs)
          /\ request = <<Request(Requested(msgs), <<"A">>)>>
    /\ sentLog = request
    /\ before = translations
    /\ pc = "sent"
    /\ tsFile = <<>>
    /\ inputFile = <<>>
    /\ csvFile = <<>>
    /\ apiCallSize = 0
    /\ ctxPos = 0
    /\ msgPos = 0
    /\ batchPhrases = <<>>
    /\ replyLog = <<>>
    /\ onlyAsked = TRUE
    /\ templateFile = <<>>
    /\ langPostfix = <<>>

\* The reply is merged into the list the batch came from.
MergeReply ==
    /\ pc = "sent"
    /\ \E reply \in Replies :
          /\ translations' = (<<"A">> :> processResponse(reply, translations[<<"A">>]))
          /\ replyLog' = Append(replyLog, reply)
    /\ request' = <<>>
    /\ pc' = "merged"
    /\ UNCHANGED <<tsFile, csvFile, apiCallSize, ctxPos, msgPos, batchPhrases,
                   sentLog, before, inputFile, onlyAsked,
                   templateFile, langPostfix>>

MergeNext == MergeReply

SpecMerge == MergeInit /\ [][MergeNext]_vars

\* The reply names no translation for the source, or the empty one.
OmittedOrEmpty(reply, source) ==
    \/ source \notin DOMAIN translationMapping(reply)
    \/ isEmpty(translationMapping(reply)[source])

\* C19: a message whose source was requested is untouched, with empty
\* translation and state Unfinished, both when the reply omits its source and
\* when the reply gives the empty string for it.
C19_OmittedOrEmpty ==
    pc = "merged" =>
        \A i \in 1..Len(before[<<"A">>]) :
            (/\ needsTranslation(before[<<"A">>][i])
             /\ ~Failed(replyLog[1])
             /\ OmittedOrEmpty(replyLog[1], before[<<"A">>][i].source)) =>
                /\ translations[<<"A">>][i] = before[<<"A">>][i]
                /\ translations[<<"A">>][i].translationType = Unfinished

\* ---------------------------------------------------------------------------
\* The effect of a data row.
\* ---------------------------------------------------------------------------

\* The message at position i is the first of the list with the source.
IsFirstWith(msgs, i, source) ==
    /\ msgs[i].source = source
    /\ \A j \in 1..(i - 1) : msgs[j].source # source

\* A message with the translation of a row: Finished if the translation is not
\* empty, Unfinished if it is.
Overwritten(msg, translation) ==
    [msg EXCEPT !.translation = translation,
                !.translationType = IF isEmpty(translation) THEN Unfinished ELSE <<>>]

\* The catalog after a row that names a context, a source and a translation:
\* the first message with that source in that context is overwritten, and
\* every other message of the catalog is as it was.
AfterRow(m, name, source, translation) ==
    [c \in DOMAIN m |->
        [i \in 1..Len(m[c]) |->
            IF c = name /\ IsFirstWith(m[c], i, source)
            THEN Overwritten(m[c][i], translation)
            ELSE m[c][i]]]

\* A line that importFromCsv takes as a data row: not blank, five fields or
\* more, an integer as line number.
IsDataRow(fields) == Len(fields) >= 5 /\ toInt(trimmed(fields[3])).ok

AfterLine(m, line, fields) ==
    IF isEmpty(trimmed(line)) \/ ~IsDataRow(fields) THEN m
    ELSE AfterRow(m, trimmed(fields[1]), trimmed(fields[4]), trimmed(fields[5]))

RECURSIVE AfterLines(_, _)
AfterLines(m, lines) ==
    IF lines = <<>> THEN m
    ELSE AfterLines(AfterLine(m, Head(lines), parseCsvLine(Head(lines))), Tail(lines))

\* C20: for a data row whose context exists and whose source matches a message
\* of that context, import overwrites the translation of the first matching
\* message only, later messages with the same source staying as they were, and
\* sets the state of that message to Finished when the new translation is not
\* empty and to Unfinished when it is; the rows act one after the other.
C20_FirstMatchOnly ==
    pc = "imported" => translations = AfterLines(before, DataLines)

\* Context A holds two messages with source s and the file holds a row for A
\* and s: the first message has the translation of the row and the state that
\* goes with it, the second is as it was.
C20_Witness ==
    /\ pc = "imported"
    /\ <<"A">> \in DOMAIN before
    /\ Len(before[<<"A">>]) = 2
    /\ before[<<"A">>][1].source = <<"s">>
    /\ before[<<"A">>][2].source = <<"s">>
    /\ before[<<"A">>][1] # before[<<"A">>][2]
    /\ \E i \in 1..Len(DataLines) :
          DataLines[i] \in { <<"A", ",", "o", ",", "7", ",", "s", ",", "t">>,
                             <<"A", ",", "o", ",", "7", ",", "s", ",">> }
    /\ translations[<<"A">>][1] # before[<<"A">>][1]
    /\ translations[<<"A">>][2] = before[<<"A">>][2]

\* ---------------------------------------------------------------------------
\* importFromCsv of the command-line program (part_001): a row without a
\* translation is skipped, and a row that is applied sets the text only.
\* ---------------------------------------------------------------------------

\* part_001 lines 360-367: the first message with the source gets the text.
ApplyRowCli(m, name, source, translation) ==
    IF FirstMatch(m[name], source) = 0 THEN m
    ELSE [m EXCEPT ![name][FirstMatch(m[name], source)].translation = translation]

\* part_001 lines 305-355: no translation, no integer as line number or no
\* such context: the row is dropped.
ImportRowCli(m, name, lineStr, source, translation) ==
    IF isEmpty(translation) THEN m
    ELSE IF ~toInt(lineStr).ok THEN m
    ELSE IF name \notin DOMAIN m THEN m
    ELSE ApplyRowCli(m, name, source, translation)

ImportFieldsCli(m, fields) ==
    IF Len(fields) < 5 THEN m
    ELSE ImportRowCli(m, trimmed(fields[1]), trimmed(fields[3]), trimmed(fields[4]),
                      trimmed(fields[5]))

ImportLineCli(m, line) ==
    IF isEmpty(trimmed(line)) THEN m
    ELSE ImportFieldsCli(m, parseCsvLine(line))

RECURSIVE ImportLinesCli(_, _)
ImportLinesCli(m, lines) ==
    IF lines = <<>> THEN m
    ELSE ImportLinesCli(ImportLineCli(m, Head(lines)), Tail(lines))

importFromCsvCli(text, m) ==
    IF ReadLines(text) = <<>> THEN m ELSE ImportLinesCli(m, Tail(ReadLines(text)))

\* part_001 line 612: importFromCsv on the map that parseTsFile has returned.
ImportRowsCli ==
    /\ pc = "parsed"
    /\ translations' = importFromCsvCli(csvFile, translations)
    /\ pc' = "imported"
    /\ UNCHANGED <<tsFile, csvFile, apiCallSize, ctxPos, msgPos, batchPhrases,
                   request, sentLog, replyLog, before, inputFile, onlyAsked,
                   templateFile, langPostfix>>

ImportCliNext == ParseTs \/ ImportRowsCli

SpecImportCli == ImportInit /\ [][ImportCliNext]_vars

\* The row is a data row without translation whose context is in the catalog
\* and whose source is that of a message of the context.
EmptyMatchingRow(m, line, fields) ==
    /\ ~isEmpty(trimmed(line))
    /\ IsDataRow(fields)
    /\ isEmpty(trimmed(fields[5]))
    /\ trimmed(fields[1]) \in DOMAIN m
    /\ FirstMatch(m[trimmed(fields[1])], trimmed(fields[4])) # 0

\* The first message of the row's context with the row's source is empty and
\* Unfinished.
EmptiedBy(m, fields) ==
    \E i \in {FirstMatch(m[trimmed(fields[1])], trimmed(fields[4]))} :
        /\ m[trimmed(fields[1])][i].translation = <<>>
        /\ m[trimmed(fields[1])][i].translationType = Unfinished

LastLine == DataLines[Len(DataLines)]

\* C21: a row whose translation is empty is applied like any other row: the
\* matched message's translation becomes empty and its state Unfinished, even
\* when the message had a translation before the import (stated for the last
\* row of the file, which no later row overrides).
C21_EmptyRowApplied ==
    (pc = "imported" /\ DataLines # <<>>) =>
        (EmptyMatchingRow(before, LastLine, parseCsvLine(LastLine)) =>
            EmptiedBy(translations, parseCsvLine(LastLine)))

\* ---------------------------------------------------------------------------
\* Rows that cannot be applied.
\* ---------------------------------------------------------------------------

\* A row that can be applied to the catalog: five fields or more, an integer
\* as line number, a context of the catalog, the source of one of its messages.
GoodRow(m, line, fields) ==
    /\ ~isEmpty(trimmed(line))
    /\ IsDataRow(fields)
    /\ trimmed(fields[1]) \in DOMAIN m
    /\ \E i \in 1..Len(m[trimmed(fields[1])]) :
           m[trimmed(fields[1])][i].source = trimmed(fields[4])

IsGoodLine(m, line) == GoodRow(m, line, parseCsvLine(line))

GoodLines(m, lines) ==
    SelectSeq(lines, LAMBDA line : IsGoodLine(m, line))

ApplyFields(m, fields) ==
    AfterRow(m, trimmed(fields[1]), trimmed(fields[4]), trimmed(fields[5]))

RECURSIVE ApplyAll(_, _)
ApplyAll(m, lines) ==
    IF lines = <<>> THEN m
    ELSE ApplyAll(ApplyFields(m, parseCsvLine(Head(lines))), Tail(lines))

\* C22: a row with too few fields, with a line field that is no integer, with
\* an unknown context or with a source that matches no message of its context
\* leaves the catalog unchanged, and every later row of the import is still
\* applied: the outcome is that of the rows that can be applied, alone.
C22_BadRowsSkipped ==
    pc = "imported" => translations = ApplyAll(before, GoodLines(before, DataLines))

\* A file whose first data row cannot be applied and whose second one has
\* changed a message.
C22_Witness ==
    /\ pc = "imported"
    /\ Len(DataLines) = 2
    /\ ~isEmpty(trimmed(DataLines[1]))
    /\ ~IsGoodLine(before, DataLines[1])
    /\ IsGoodLine(before, DataLines[2])
    /\ translations # before

\* ---------------------------------------------------------------------------
\* Batches and contexts.
\* ---------------------------------------------------------------------------

\* The sources of the messages of context c that had no translation.
PendingOf(c) == {before[c][i].source : i \in {j \in 1..Len(before[c]) : needsTranslation(before[c][j])}}

\* The request names a context of the catalog as its hint and asks only for
\* sources of messages of that context.
OneContextBatch(req) ==
    /\ req.contextName \in DOMAIN before
    /\ \A i \in 1..Len(req.phrases) : req.phrases[i] \in PendingOf(req.contextName)

\* C23: every batch dispatched holds source texts of messages of exactly one
\* context and is sent with the name of that context as hint; the partial
\* batch of a context is dispatched when its messages are exhausted, before
\* any message of the next context is scanned.
C23_BatchOneContext ==
    /\ [](\A k \in 1..Len(sentLog) : OneContextBatch(sentLog[k]))
    /\ [][(ctxPos' # ctxPos) => (batchPhrases = <<>>)]_vars

\* ---------------------------------------------------------------------------
\* The size of a batch.
\* ---------------------------------------------------------------------------

\* C24: for a configured batch size b >= 1 every batch dispatched is not empty
\* and holds at most b phrases, and a batch is dispatched as soon as it holds
\* b phrases: a batch that is still being collected holds fewer.
C24_BatchSize ==
    apiCallSize >= 1 =>
        /\ \A k \in 1..Len(sentLog) :
               /\ Len(sentLog[k].phrases) >= 1
               /\ Len(sentLog[k].phrases) <= apiCallSize
        /\ request = <<>> => Len(batchPhrases) < apiCallSize
        /\ request # <<>> => request[1].phrases = batchPhrases

\* With batch size 2 a full batch was sent from the loop and the phrase that
\* was left was sent after the loops.
C24_Witness ==
    /\ apiCallSize = 2
    /\ Len(sentLog) = 2
    /\ Len(sentLog[1].phrases) = 2
    /\ Len(sentLog[2].phrases) = 1
    /\ pc = "done"

\* ---------------------------------------------------------------------------
\* Phrases sent twice.
\* ---------------------------------------------------------------------------

NoRepeat(phrases) ==
    \A i \in 1..Len(phrases) : \A j \in 1..Len(phrases) :
        phrases[i] = phrases[j] => i = j

\* C25: within the scan of one context no source text is sent to the
\* translator more than once; in particular no batch dispatched holds the same
\* phrase twice, even when several untranslated messages of the context share
\* a source.
C25_NoDuplicatePhrase ==
    \A k \in 1..Len(sentLog) : NoRepeat(sentLog[k].phrases)

\* ---------------------------------------------------------------------------
\* Messages that share a source.
\* ---------------------------------------------------------------------------

\* Message i of the list shares its source with another message of the list.
Shared(msgs, i) == \E j \in 1..Len(msgs) : j # i /\ msgs[j].source = msgs[i].source

\* Every message of the list that shares its source, when the source is a key
\* of the mapping, has the mapped translation and is finished in the list
\* after the merge.
FannedOut(mapping, msgs, after) ==
    \A i \in 1..Len(msgs) :
        (Shared(msgs, i) /\ msgs[i].source \in DOMAIN mapping) =>
            /\ after[i].translation = mapping[msgs[i].source]
            /\ after[i].translationType = <<>>

LastReply == replyLog'[Len(replyLog')]

\* C26: when a context holds several messages with the same source and the
\* returned mapping has that source as a key, the merge gives every one of
\* those messages the mapped translation and state Finished.
C26_FanOut ==
    [][(replyLog' # replyLog /\ ~Failed(LastReply)) =>
          \A c \in DOMAIN translations :
              FannedOut(translationMapping(LastReply), translations[c], translations'[c])]_vars

\* ---------------------------------------------------------------------------
\* Merges, import rows and resets on one catalog, in any order.
\* ---------------------------------------------------------------------------

\* The state of the message is Finished exactly when it has a translation.
Derived(msg) == (msg.translationType = <<>>) <=> ~isEmpty(msg.translation)

DerivedMessages == {msg \in ImportMessages \cup PipelineMessages : Derived(msg)}

DerivedLists ==
    {<<a>> : a \in DerivedMessages} \cup {<<a, b>> : a \in DerivedMessages, b \in DerivedMessages}

\* A catalog with context A, or with contexts A and B, all messages derived.
OpsInit ==
    /\ \E msgs \in DerivedLists :
          \/ translations = (<<"A">> :> msgs)
          \/ translations = (<<"A">> :> msgs) @@ (<<"B">> :> <<msgs[1]>>)
    /\ before = translations
    /\ pc = "ready"
    /\ tsFile = <<>>
    /\ inputFile = <<>>
    /\ csvFile = <<>>
    /\ apiCallSize = 0
    /\ ctxPos = 0
    /\ msgPos = 0
    /\ batchPhrases = <<>>
    /\ request = <<>>
    /\ sentLog = <<>>
    /\ replyLog = <<>>
    /\ onlyAsked = TRUE
    /\ templateFile = <<>>
    /\ langPostfix = <<>>

\* processResponse of translation.cpp on the list of one context.
OpMerge ==
    /\ \E c \in DOMAIN translations : \E reply \in Replies :
          translations' = [translations EXCEPT ![c] = processResponse(reply, @)]
    /\ UNCHANGED <<tsFile, csvFile, pc, apiCallSize, ctxPos, msgPos, batchPhrases,
                   request, sentLog, replyLog, before, inputFile, onlyAsked,
                   templateFile, langPostfix>>

\* A header line followed by no or one data line.
OpsFiles ==
    {CsvHeader \o JoinLines(ls) : ls \in {<<>>} \cup {<<a>> : a \in ImportLinePool}}

\* importFromCsv of translation.cpp with some file.
OpImport ==
    /\ csvFile' \in OpsFiles
    /\ translations' = importFromCsv(csvFile', translations)
    /\ UNCHANGED <<tsFile, pc, apiCallSize, ctxPos, msgPos, batchPhrases,
                   request, sentLog, replyLog, before, inputFile, onlyAsked,
                   templateFile, langPostfix>>

\* The loop of clearTranslation over the catalog.
OpReset ==
    /\ translations' = ClearAll(translations)
    /\ UNCHANGED <<tsFile, csvFile, pc, apiCallSize, ctxPos, msgPos, batchPhrases,
                   request, sentLog, replyLog, before, inputFile, onlyAsked,
                   templateFile, langPostfix>>

OpsNext == OpMerge \/ OpImport \/ OpReset

SpecOps == OpsInit /\ [][OpsNext]_vars

\* C27: from a catalog in which every message is Finished exactly when its
\* translation is not empty, every catalog reached by merges, import rows and
\* resets in any order keeps that relation for every message.
C27_StateDerived ==
    \A c \in DOMAIN translations : \A i \in 1..Len(translations[c]) :
        Derived(translations[c][i])

\* ---------------------------------------------------------------------------
\* Termination of parseTsFile.
\* ---------------------------------------------------------------------------

\* C28: parseTsFile terminates on every finite input: when the token stream
\* ends or reports an error while the reader is inside a context block or a
\* message block, the loops still exit and the function returns.
C28_ParseTerminates ==
    pc = "start" => ~parseTsFilePath(tsFile).hang

\* ---------------------------------------------------------------------------
\* Termination of the run and the number of calls.
\* ---------------------------------------------------------------------------

\* The number of messages that had no translation before the run.
EmptyBefore ==
    Cardinality({i \in 1..Len(MessagesBefore) : isEmpty(MessagesBefore[i].translation)})

\* C29: a run over a finite catalog terminates for every configured batch
\* size, zero and negative ones included, when every translator call returns:
\* every step moves the run forward in a bounded order and the run can take a
\* step until the file is written; the run makes at most one call per message
\* that had no translation before it.
C29_RunTerminates ==
    /\ [][Advances]_vars
    /\ [](NeverStuck /\ Len(sentLog) <= EmptyBefore)

\* ---------------------------------------------------------------------------
\* Rows for the same message.
\* ---------------------------------------------------------------------------

\* The two rows name the same context and the same source.
SameKey(f, g) ==
    /\ trimmed(f[1]) = trimmed(g[1])
    /\ trimmed(f[4]) = trimmed(g[4])

\* Line k is a row that can be applied and no later row that can be applied
\* names its context and source.
LastRowOfKey(m, lines, k) ==
    /\ IsGoodLine(m, lines[k])
    /\ \A j \in (k + 1)..Len(lines) :
           IsGoodLine(m, lines[j]) =>
               ~SameKey(parseCsvLine(lines[k]), parseCsvLine(lines[j]))

\* The first message with the row's source in the row's context has the
\* translation of the row and the state that follows from it.
RowShows(m, fields) ==
    \E i \in {FirstMatch(m[trimmed(fields[1])], trimmed(fields[4]))} :
        m[trimmed(fields[1])][i] =
            Overwritten(before[trimmed(fields[1])][i], trimmed(fields[5]))

\* C30: import applies the data rows in the order of the file: when several
\* rows that can be applied name the same context and the same source, the
\* first matching message ends with the translation and the derived state of
\* the last of these rows.
C30_LastRowWins ==
    pc = "imported" =>
        \A k \in 1..Len(DataLines) :
            LastRowOfKey(before, DataLines, k) =>
                RowShows(translations, parseCsvLine(DataLines[k]))

\* Two rows for the same message with different translations: the message has
\* the translation of the second.
C30_Witness ==
    /\ pc = "imported"
    /\ Len(DataLines) = 2
    /\ IsGoodLine(before, DataLines[1])
    /\ IsGoodLine(before, DataLines[2])
    /\ SameKey(parseCsvLine(DataLines[1]), parseCsvLine(DataLines[2]))
    /\ trimmed(parseCsvLine(DataLines[1])[5]) # trimmed(parseCsvLine(DataLines[2])[5])
    /\ RowShows(translations, parseCsvLine(DataLines[2]))

=============================================================================
